---- MODULE Spec2Model ----
(***************************************************************************)
(* State-machine model of the logs distributor.                            *)
(*                                                                         *)
(* Two programs live in the repository and are modelled side by side:      *)
(*   - the gateway: WeightedDistributor + HealthChecker + Analyzer +       *)
(*     the POST /logs and /analyzers handlers of LogsDistributorServer;    *)
(*   - the coding-questions classes: Distributor, FaultTolerantDistributor *)
(*     and AsyncLock.                                                      *)
(* The variable `program` says which of the two a behaviour runs; the      *)
(* other program's variables keep their initial values.                    *)
(*                                                                         *)
(* JavaScript runs one job at a time.  An action of the model is one       *)
(* run-to-completion segment of a handler: from its start (or from the     *)
(* point where an await resumes) to the next await.  Segments that the     *)
(* event loop runs back to back as synchronous code or as microtasks are   *)
(* separate actions, but no timer, HTTP request or HTTP response is taken  *)
(* while one of them is pending (Quiescent).                               *)
(***************************************************************************)
EXTENDS Integers, Sequences, FiniteSets, TLC

\* ------------------------------------------------------------------ bounds
\* Packets the environment submits in a traffic run, and in a probing run.
MaxPackets == 3
ProbingPackets == 1
AdmissionPackets == 1
FairPackets == 2
FairChecks == 6
ShutdownPackets == 2
ShutdownChecks == 1
SlowPackets == 2
SlowChecks == 1
ConfiguredFailureThreshold == 2
ConfiguredSuccessThreshold == 1
\* Messages in one submitted packet: 0..MaxMessages.
MaxMessages == 2
\* In a probing run no further probe is started once the registered analyzers'
\* totalChecks and the probes in flight add up to this.
MaxChecks == 7
\* Probes in flight against one analyzer id at a time.
MaxInFlight == 1
\* Math.random() is drawn from the grid {0/RandomGrid, ..., (RandomGrid-1)/RandomGrid}.
RandomGrid == 4
\* options.maxQueueSize and options.batchSize of the WeightedDistributor.
maxQueueSize == 2
batchSize == 1

\* distribute() calls made on the FaultTolerantDistributor, rounds of its
\* health checks, and updateConfiguration calls, in one behaviour.
MaxCalls == 2
MaxRounds == 2
MaxReconfigs == 1
\* acquire calls made on one AsyncLock by the users of the class.
MaxAcquires == 4
\* Length of the analyzers and weights arrays given to the constructor or to
\* updateConfiguration: 1..MaxAnalyzers.
MaxAnalyzers == 2
\* options.failureThreshold and options.recoveryThreshold of the
\* FaultTolerantDistributor.
failureThreshold == 2
recoveryThreshold == 2

\* -------------------------------------------------------- program constants
\* Analyzer.updateHealth: the literal thresholds.
SuccessThreshold == 3
FailureThreshold == 3

\* --------------------------------------------------------------- input sets
Ids == {"a1", "a2"}
Weights == {1, 2}
\* A message is the string JSON.stringify(msg.toJSON()) that the POST /logs
\* handler builds, so JSON.parse in sendToAnalyzer always succeeds.
MessageKinds == {"json"}
\* What the analyzer's HTTP endpoint does with a POST /analyze.
\* "4xx" stands for every status below 500 that is not 2xx (validateStatus
\* lets it through as a response), "5xx" for everything axios throws for: a
\* status >= 500, a timeout, a connection failure.
Statuses == {"2xx", "4xx", "5xx"}
\* Date.now() - startTime of a finished request, in ms.
ResponseTimes == {1}
\* selectAnalyzer's null.
NoAnalyzer == "null"
Randoms == 0 .. (RandomGrid - 1)

\* The options given to new HealthChecker(distributor, options): none (0
\* stands for a missing option), or configured thresholds.
NoOptions == [failureThreshold |-> 0, successThreshold |-> 0]
ConfiguredOptions == [failureThreshold |-> ConfiguredFailureThreshold,
                      successThreshold |-> ConfiguredSuccessThreshold]

\* The weight a POST /analyzers body may carry besides the ones of Weights:
\* a negative number and 0 (which stands for a missing weight as well).
RequestWeights == {-1, 0, 1}

\* A POST /analyzers body without an id.
EmptyId == ""

\* What the environment of one behaviour does at most: the analyzer ids and
\* weights it posts, the packets it submits, the probe outcomes it lets
\* happen.  A traffic run exercises the queue and the selector over two
\* analyzers; a probing run takes one analyzer through degradation and
\* recovery while a packet is dispatched to it; an admission run posts
\* arbitrary request bodies to /analyzers and dispatches one packet; a
\* shutdown run ends with SIGINT or SIGTERM while packets are queued and
\* dispatched.
Environments ==
    { [ids |-> Ids, weights |-> Weights, packets |-> MaxPackets, checks |-> 0,
       reconfigs |-> 0, size |-> 0,
       options |-> NoOptions, signals |-> 0],
      [ids |-> {"a1"}, weights |-> Weights, packets |-> ProbingPackets,
       checks |-> MaxChecks, reconfigs |-> 0, size |-> 0,
       options |-> ConfiguredOptions, signals |-> 0],
      [ids |-> Ids \cup {EmptyId}, weights |-> RequestWeights,
       packets |-> AdmissionPackets, checks |-> 0, reconfigs |-> 0, size |-> 0,
       options |-> NoOptions, signals |-> 0],
      [ids |-> {"a1"}, weights |-> {1}, packets |-> ShutdownPackets,
       checks |-> ShutdownChecks, reconfigs |-> 0, size |-> 0,
       options |-> NoOptions, signals |-> 1] }

VARIABLES
    program,        \* "gateway" or "coding": which program this behaviour runs
    env,            \* the element of Environments that bounds this behaviour
    analyzers,      \* WeightedDistributor.analyzers: the Map, in insertion order
    packetQueue,    \* WeightedDistributor.packetQueue
    isProcessing,   \* WeightedDistributor.isProcessing
    stats,          \* WeightedDistributor.stats
    batch,          \* processQueue's local `batch`: drained, not yet completed;
                    \* its head is the packet processPacket is working on
    msgState,       \* per message of the head packet: where its distribute() call is
    probes,         \* HealthChecker: probes in flight, per analyzer id
    httpStatus,     \* status of the last POST /logs response (0: none yet)
    lifecycle,      \* HealthChecker.isRunning and intervalId, the setInterval
                    \* timers of checkAllAnalyzers that are armed, and whether
                    \* process.exit has run
    evicted,        \* the calls in flight whose Analyzer object has been deleted
                    \* from the Map since they started: messages of the head
                    \* packet (msgs) and probes per analyzer id (probes)
    weights,        \* Distributor.weights; this.analyzers has the same length
    health,         \* FaultTolerantDistributor: healthy, failureCounts, successCounts
    stateLocks,     \* FaultTolerantDistributor.stateLocks: one AsyncLock per index
    dstats,         \* Distributor.stats
    calls,          \* the distribute() calls: where each one is
    checks,         \* performSingleHealthCheck(index): where each one is
    used            \* health-check rounds and updateConfiguration calls so far

gatewayVars == <<analyzers, packetQueue, isProcessing, stats, batch, msgState,
                 probes, httpStatus, evicted, lifecycle>>
codingVars == <<weights, health, stateLocks, dstats, calls, checks, used>>

\* ------------------------------------------------------------------ helpers
RECURSIVE SumWeights(_)
SumWeights(s) == IF s = <<>> THEN 0 ELSE s[1].weight + SumWeights(Tail(s))

Min(S) == CHOOSE x \in S : \A y \in S : x <= y

Index(reg, id) == CHOOSE i \in 1 .. Len(reg) : reg[i].id = id
Has(reg, id) == \E i \in 1 .. Len(reg) : reg[i].id = id
Lookup(reg, id) == reg[Index(reg, id)]

Remove(s, i) == SubSeq(s, 1, i - 1) \o SubSeq(s, i + 1, Len(s))

\* ----------------------------------------------------------------- Analyzer
\* An Analyzer that starts unhealthy and has to earn its place by probes.
NewAnalyzerOnProbation(id, weight) ==
    [id |-> id, weight |-> weight, healthy |-> FALSE, lastSeen |-> 0,
     consecutiveFailures |-> 0, consecutiveSuccesses |-> 0,
     totalChecks |-> 0, totalFailures |-> 0, lastResponseTime |-> 0]

\* new Analyzer(id, endpoint, weight).  The clock that lastSeen reads
\* (new Date()) is the record's own: 0 at construction, then the number of the
\* outcome being recorded.
NewAnalyzer(id, weight) ==
    [id |-> id, weight |-> weight, healthy |-> TRUE, lastSeen |-> 0,
     consecutiveFailures |-> 0, consecutiveSuccesses |-> 0,
     totalChecks |-> 0, totalFailures |-> 0, lastResponseTime |-> 0]

\* updateHealth with a success that makes the analyzer healthy at once,
\* whatever its streak.
updateHealthEagerRecovery(a, success, responseTime) ==
    LET b == [a EXCEPT !.totalChecks = @ + 1, !.lastResponseTime = responseTime]
    IN  IF success
        THEN [b EXCEPT !.consecutiveSuccesses = @ + 1, !.consecutiveFailures = 0,
                       !.lastSeen = b.totalChecks, !.healthy = TRUE]
        ELSE LET c == [b EXCEPT !.totalFailures = @ + 1,
                                !.consecutiveFailures = @ + 1,
                                !.consecutiveSuccesses = 0]
             IN  IF c.consecutiveFailures >= FailureThreshold
                 THEN [c EXCEPT !.healthy = FALSE] ELSE c

\* updateHealth with a failure that leaves the success streak as it is.
updateHealthKeepsStreak(a, success, responseTime) ==
    LET b == [a EXCEPT !.totalChecks = @ + 1, !.lastResponseTime = responseTime]
    IN  IF success
        THEN LET c == [b EXCEPT !.consecutiveSuccesses = @ + 1,
                                !.consecutiveFailures = 0,
                                !.lastSeen = b.totalChecks]
             IN  IF c.consecutiveSuccesses >= SuccessThreshold
                 THEN [c EXCEPT !.healthy = TRUE] ELSE c
        ELSE LET c == [b EXCEPT !.totalFailures = @ + 1,
                                !.consecutiveFailures = @ + 1]
             IN  IF c.consecutiveFailures >= FailureThreshold
                 THEN [c EXCEPT !.healthy = FALSE] ELSE c

\* updateHealth that counts the successes of an unhealthy analyzer and never
\* makes it healthy again.
updateHealthNoRecovery(a, success, responseTime) ==
    LET b == [a EXCEPT !.totalChecks = @ + 1, !.lastResponseTime = responseTime]
    IN  IF success
        THEN [b EXCEPT !.consecutiveSuccesses = @ + 1, !.consecutiveFailures = 0,
                       !.lastSeen = b.totalChecks]
        ELSE LET c == [b EXCEPT !.totalFailures = @ + 1,
                                !.consecutiveFailures = @ + 1,
                                !.consecutiveSuccesses = 0]
             IN  IF c.consecutiveFailures >= FailureThreshold
                 THEN [c EXCEPT !.healthy = FALSE] ELSE c

\* updateHealth with a success that clears totalFailures together with the
\* failure streak.
updateHealthClearsFailures(a, success, responseTime) ==
    LET b == [a EXCEPT !.totalChecks = @ + 1, !.lastResponseTime = responseTime]
    IN  IF success
        THEN LET c == [b EXCEPT !.consecutiveSuccesses = @ + 1,
                                !.consecutiveFailures = 0, !.totalFailures = 0,
                                !.lastSeen = b.totalChecks]
             IN  IF c.consecutiveSuccesses >= SuccessThreshold
                 THEN [c EXCEPT !.healthy = TRUE] ELSE c
        ELSE LET c == [b EXCEPT !.totalFailures = @ + 1,
                                !.consecutiveFailures = @ + 1,
                                !.consecutiveSuccesses = 0]
             IN  IF c.consecutiveFailures >= FailureThreshold
                 THEN [c EXCEPT !.healthy = FALSE] ELSE c

\* Analyzer.updateHealth(success, responseTime)
updateHealth(a, success, responseTime) ==
    LET b == [a EXCEPT !.totalChecks = @ + 1, !.lastResponseTime = responseTime]
    IN  IF success
        THEN LET c == [b EXCEPT !.consecutiveSuccesses = @ + 1,
                                !.consecutiveFailures = 0,
                                !.lastSeen = b.totalChecks]
             IN  IF c.consecutiveSuccesses >= SuccessThreshold
                 THEN [c EXCEPT !.healthy = TRUE] ELSE c
        ELSE LET c == [b EXCEPT !.totalFailures = @ + 1,
                                !.consecutiveFailures = @ + 1,
                                !.consecutiveSuccesses = 0]
             IN  IF c.consecutiveFailures >= FailureThreshold
                 THEN [c EXCEPT !.healthy = FALSE] ELSE c

\* ------------------------------------------------------------ HealthChecker
\* The default of options.failureThreshold and options.successThreshold.
DefaultThreshold == 3

\* HealthChecker.constructor: this.failureThreshold and this.successThreshold
\* (`options.x || 3`).  Nothing but getStats reads them afterwards.
HealthChecker(options) ==
    [failureThreshold |-> IF options.failureThreshold = 0 THEN DefaultThreshold
                          ELSE options.failureThreshold,
     successThreshold |-> IF options.successThreshold = 0 THEN DefaultThreshold
                          ELSE options.successThreshold]

\* ------------------------------------------------------ WeightedDistributor
\* addAnalyzer: Map.set keeps the position of a key that is already present.
addAnalyzer(reg, id, weight) ==
    IF Has(reg, id)
    THEN [reg EXCEPT ![Index(reg, id)] = NewAnalyzer(id, weight)]
    ELSE Append(reg, NewAnalyzer(id, weight))

\* removeAnalyzer over an array, with splice(indexOf(id), 1): an id that is
\* not there gives index -1 and takes the last analyzer away.
removeAnalyzerSplice(reg, id) ==
    IF Has(reg, id) THEN Remove(reg, Index(reg, id))
    ELSE IF reg = <<>> THEN reg ELSE Remove(reg, Len(reg))

\* removeAnalyzer
removeAnalyzer(reg, id) ==
    IF Has(reg, id) THEN Remove(reg, Index(reg, id)) ELSE reg

\* removeAnalyzer: the 'analyzerRemoved' events it emits.
removeAnalyzerEmits(reg, id) ==
    IF Has(reg, id) THEN <<[event |-> "analyzerRemoved", id |-> id]>> ELSE <<>>

\* updateAnalyzerHealth that records the outcome in every analyzer of the Map.
updateAnalyzerHealthAll(reg, id, healthy, responseTime) ==
    IF Has(reg, id)
    THEN [i \in 1 .. Len(reg) |-> updateHealth(reg[i], healthy, responseTime)]
    ELSE reg

\* updateAnalyzerHealth that records every outcome twice.
updateAnalyzerHealthTwice(reg, id, healthy, responseTime) ==
    IF Has(reg, id)
    THEN [reg EXCEPT ![Index(reg, id)] =
              updateHealth(updateHealth(@, healthy, responseTime), healthy, responseTime)]
    ELSE reg

\* updateAnalyzerHealth(analyzerId, healthy, responseTime = 0)
updateAnalyzerHealth(reg, id, healthy, responseTime) ==
    IF Has(reg, id)
    THEN [reg EXCEPT ![Index(reg, id)] = updateHealth(@, healthy, responseTime)]
    ELSE reg

\* updateAnalyzerHealth: the 'analyzerHealthChanged' events it emits, each
\* with the analyzer's healthy flag after the update, which the server's
\* listener logs as "health changed to".
updateAnalyzerHealthEmits(reg, id, healthy, responseTime) ==
    IF Has(reg, id)
    THEN <<[event |-> "analyzerHealthChanged", id |-> id,
            healthy |-> updateHealth(Lookup(reg, id), healthy, responseTime).healthy]>>
    ELSE <<>>

\* getHealthyAnalyzers
getHealthyAnalyzers(reg) == SelectSeq(reg, LAMBDA a : a.healthy)

\* GET /ready that looks at the registered analyzers, healthy or not.
readyStatusRegistered(reg) == IF Len(reg) > 0 THEN 200 ELSE 503

\* GET /ready: 200 when getHealthyAnalyzers() is not empty, 503 otherwise.
readyStatus(reg) == IF Len(getHealthyAnalyzers(reg)) > 0 THEN 200 ELSE 503

\* getTotalWeight
getTotalWeight(reg) == SumWeights(getHealthyAnalyzers(reg))

\* selectAnalyzer's loop over the healthy analyzers h, for random = num / den:
\* the position of the first one with random <= cumulativeWeight, and the
\* last position when the loop ends without a return.
weightedPick(h, num, den) ==
    LET hit == {i \in 1 .. Len(h) : num <= SumWeights(SubSeq(h, 1, i)) * den}
    IN  IF hit # {} THEN Min(hit) ELSE Len(h)

\* selectAnalyzer, with Math.random() = num / den, so that
\* random = Math.random() * totalWeight = (num * totalWeight) / den.
\* Returns the analyzer's id.
selectAnalyzerAt(reg, num, den) ==
    LET h == getHealthyAnalyzers(reg)
        totalWeight == getTotalWeight(reg)
    IN  IF Len(h) = 0 THEN NoAnalyzer
        ELSE IF Len(h) = 1 THEN h[1].id
        ELSE IF totalWeight = 0 THEN NoAnalyzer
        ELSE h[weightedPick(h, num * totalWeight, den)].id

\* selectAnalyzer with a draw of the grid: Math.random() = u / RandomGrid.
selectAnalyzer(reg, u) == selectAnalyzerAt(reg, u, RandomGrid)

\* Where the distribute(message) call of one message of the head packet is:
\* not yet called, awaiting the analyzer's answer, thrown out of
\* sendToAnalyzer with distribute's catch block still to run, or finished.
New == [st |-> "new", analyzer |-> NoAnalyzer, cause |-> "none"]
Done == [st |-> "done", analyzer |-> NoAnalyzer, cause |-> "none"]
InFlight(id) == [st |-> "inflight", analyzer |-> id, cause |-> "none"]
Rejected(id, cause) == [st |-> "rejected", analyzer |-> id, cause |-> cause]

\* Promise.race in the place of Promise.all: one finished message is enough.
SomeDone == \E i \in 1 .. Len(msgState) : msgState[i].st = "done"

\* Promise.all(distributionPromises) has resolved: every message is finished.
AllDone == \A i \in 1 .. Len(msgState) : msgState[i].st = "done"
SomeNew == \E i \in 1 .. Len(msgState) : msgState[i].st = "new"
SomeRejected == \E i \in 1 .. Len(msgState) : msgState[i].st = "rejected"

\* No synchronous code and no microtask is pending: the event loop is free
\* to take a timer, a request, a response or a signal; it takes none once
\* process.exit has run.
Quiescent ==
    ~lifecycle.exited /\ ~SomeNew /\ ~SomeRejected /\ ~(batch # <<>> /\ AllDone)

Packets == UNION {[1 .. n -> MessageKinds] : n \in 0 .. MaxMessages}

\* distributePacket with the queue-full test > in the place of >=.
distributePacketOffByOne(queue, st, messages) ==
    IF Len(queue) > maxQueueSize
    THEN [packetQueue |-> queue,
          stats |-> [st EXCEPT !.packetsReceived = @ + 1, !.packetsDropped = @ + 1],
          threw |-> TRUE]
    ELSE [packetQueue |-> Append(queue, [id |-> st.packetsReceived + 1,
                                         messages |-> messages]),
          stats |-> [st EXCEPT !.packetsReceived = @ + 1],
          threw |-> FALSE]

\* distributePacket(logPacket): the new queue and stats, and whether it threw
\* 'Queue full'.  The packet id (Date.now() and Math.random() in the code) is
\* the packet's number in order of arrival.
distributePacket(queue, st, messages) ==
    IF Len(queue) >= maxQueueSize
    THEN [packetQueue |-> queue,
          stats |-> [st EXCEPT !.packetsReceived = @ + 1, !.packetsDropped = @ + 1],
          threw |-> TRUE]
    ELSE [packetQueue |-> Append(queue, [id |-> st.packetsReceived + 1,
                                         messages |-> messages]),
          stats |-> [st EXCEPT !.packetsReceived = @ + 1],
          threw |-> FALSE]

\* The POST /logs handler's answer to a valid packet.
PostLogsStatus(threw) == IF threw THEN 429 ELSE 200

\* POST /logs with a valid packet -> distributePacket(messages).
PostLogs ==
    /\ program = "gateway" /\ Quiescent
    /\ stats.packetsReceived < env.packets
    /\ \E messages \in Packets :
         LET r == distributePacket(packetQueue, stats, messages)
         IN  /\ packetQueue' = r.packetQueue
             /\ stats' = r.stats
             /\ httpStatus' = PostLogsStatus(r.threw)
    /\ UNCHANGED <<program, env, codingVars, lifecycle, analyzers, isProcessing, batch, msgState, probes, evicted>>

\* A drain from the other end, this.packetQueue.splice(-this.batchSize): the
\* newest packets are taken.
spliceNewest(queue) ==
    LET n == IF Len(queue) < batchSize THEN Len(queue) ELSE batchSize
    IN  [batch |-> SubSeq(queue, Len(queue) - n + 1, Len(queue)),
         packetQueue |-> SubSeq(queue, 1, Len(queue) - n)]

\* this.packetQueue.splice(0, this.batchSize): what is taken and what stays.
splice(queue) ==
    LET n == IF Len(queue) < batchSize THEN Len(queue) ELSE batchSize
    IN  [batch |-> SubSeq(queue, 1, n), packetQueue |-> SubSeq(queue, n + 1, Len(queue))]

\* processPacket(packet) up to the first distribute call: one pending
\* distribute per message.
processPacket(packet) == [i \in 1 .. Len(packet.messages) |-> New]

\* processQueue that returns at once only when the queue is empty.
processQueueReturnsOnEmpty(processing, queue) == Len(queue) = 0

\* processQueue's first statement: whether the call returns at once,
\* `this.isProcessing || this.packetQueue.length === 0`.
processQueueReturns(processing, queue) == processing \/ Len(queue) = 0

\* processQueue, a timer tick of startProcessing.  A tick while a batch is in
\* progress or the queue is empty returns at once and changes nothing.
ProcessQueue ==
    /\ program = "gateway" /\ Quiescent
    /\ ~processQueueReturns(isProcessing, packetQueue)
    /\ isProcessing' = TRUE
    /\ batch' = splice(packetQueue).batch
    /\ packetQueue' = splice(packetQueue).packetQueue
    /\ msgState' = processPacket(splice(packetQueue).batch[1])
    /\ UNCHANGED <<program, env, codingVars, lifecycle, analyzers, stats, probes, httpStatus, evicted>>

\* distribute that swallows 'No healthy analyzers available' without counting
\* the error.
distributeUncounted(reg, st, u) ==
    LET id == selectAnalyzer(reg, u)
    IN  IF id = NoAnalyzer
        THEN [stats |-> st, msg |-> Done]
        ELSE [stats |-> st, msg |-> InFlight(id)]

\* distribute(logMessage) up to its await: selectAnalyzer, then either the
\* throw of 'No healthy analyzers available' or the POST to the analyzer.
distribute(reg, st, u) ==
    LET id == selectAnalyzer(reg, u)
    IN  IF id = NoAnalyzer
        THEN [stats |-> [st EXCEPT !.errors = @ + 1], msg |-> Done]
        ELSE [stats |-> st, msg |-> InFlight(id)]

\* packet.messages.map(message => this.distribute(message)): the next call.
Distribute ==
    /\ program = "gateway" /\ SomeNew
    /\ LET i == Min({j \in 1 .. Len(msgState) : msgState[j].st = "new"})
       IN  \E u \in Randoms :
             /\ stats' = distribute(analyzers, stats, u).stats
             /\ msgState' = [msgState EXCEPT ![i] = distribute(analyzers, stats, u).msg]
    /\ UNCHANGED <<program, env, codingVars, lifecycle, analyzers, packetQueue, isProcessing, batch, probes,
                   httpStatus, evicted>>

\* sendToAnalyzer from the analyzer's answer on: a 2xx records a success,
\* anything else ends in the catch block, which records a failure and throws.
sendToAnalyzer(reg, id, status, responseTime) ==
    IF status = "2xx"
    THEN [analyzers |-> updateAnalyzerHealth(reg, id, TRUE, responseTime), msg |-> Done]
    ELSE [analyzers |-> updateAnalyzerHealth(reg, id, FALSE, responseTime),
          msg |-> Rejected(id, status)]

\* The analyzer answers a message in flight (or the request times out).
SendResponse ==
    /\ program = "gateway" /\ Quiescent
    /\ \E i \in 1 .. Len(msgState), status \in Statuses, rt \in ResponseTimes :
         /\ msgState[i].st = "inflight"
         /\ LET r == sendToAnalyzer(analyzers, msgState[i].analyzer, status, rt)
            IN  /\ analyzers' = r.analyzers
                /\ msgState' = [msgState EXCEPT ![i] = r.msg]
                /\ evicted' = IF r.msg = Done
                              THEN [evicted EXCEPT !.msgs = @ \ {i}] ELSE evicted
    /\ UNCHANGED <<program, env, codingVars, lifecycle, packetQueue, isProcessing, stats, batch, probes,
                   httpStatus>>

\* distribute's catch block: errors++, updateAnalyzerHealth(analyzer.id, false).
distributeCatch(reg, st, id) ==
    [analyzers |-> updateAnalyzerHealth(reg, id, FALSE, 0),
     stats |-> [st EXCEPT !.errors = @ + 1]]

\* distribute resumes after sendToAnalyzer has thrown.
DistributeCatch ==
    /\ program = "gateway" /\ ~SomeNew /\ SomeRejected
    /\ LET i == Min({j \in 1 .. Len(msgState) : msgState[j].st = "rejected"})
           r == distributeCatch(analyzers, stats, msgState[i].analyzer)
       IN  /\ stats' = r.stats
           /\ analyzers' = r.analyzers
           /\ msgState' = [msgState EXCEPT ![i] = Done]
           /\ evicted' = [evicted EXCEPT !.msgs = @ \ {i}]
    /\ UNCHANGED <<program, env, codingVars, lifecycle, packetQueue, isProcessing, batch, probes, httpStatus>>

\* processPacket that forgets to count the packet.
packetNotCounted(st) == st

\* processPacket after Promise.all: the packet is processed.
packetProcessed(st) == [st EXCEPT !.packetsProcessed = @ + 1]

\* processQueue without its finally block: isProcessing stays true.
processQueueNoFinally == TRUE

\* processQueue's finally block: this.isProcessing = false.
processQueueFinally == FALSE

\* processPacket resumes after Promise.all, then processQueue's loop goes on:
\* the next packet of the batch, or the finally block.
CompletePacket ==
    /\ program = "gateway" /\ batch # <<>> /\ AllDone
    /\ stats' = packetProcessed(stats)
    /\ batch' = Tail(batch)
    /\ IF Len(batch) > 1
       THEN /\ msgState' = processPacket(batch[2])
            /\ UNCHANGED isProcessing
       ELSE /\ msgState' = <<>>
            /\ isProcessing' = processQueueFinally
    /\ UNCHANGED <<program, env, codingVars, lifecycle, analyzers, packetQueue, probes, httpStatus, evicted>>

\* `weight || 1.0` in the POST /analyzers handler: a missing or zero weight
\* becomes 1, every other number is passed on as it is.
weightOrDefault(weight) == IF weight = 0 THEN 1 ELSE weight

\* The POST /analyzers handler: 400 for a body without an id, otherwise
\* new Analyzer(id, endpoint, weight || 1.0), addAnalyzer and 200.
postAnalyzers(reg, id, weight) ==
    IF id = EmptyId
    THEN [analyzers |-> reg, status |-> 400]
    ELSE [analyzers |-> addAnalyzer(reg, id, weightOrDefault(weight)), status |-> 200]

\* What is in flight against the Analyzer object of id when it is deleted
\* from the Map or replaced in it: it joins the calls whose object is no
\* longer in the Map.
orphaned(id) ==
    [msgs |-> evicted.msgs \cup {i \in 1 .. Len(msgState) :
                                   msgState[i].st = "inflight" /\ msgState[i].analyzer = id},
     probes |-> [evicted.probes EXCEPT ![id] = probes[id]]]

\* POST /analyzers.  Map.set of an id that is present puts the new Analyzer
\* object in the place of the old one.
AddAnalyzer ==
    /\ program = "gateway" /\ Quiescent
    /\ \E id \in env.ids, weight \in env.weights :
         /\ analyzers' = postAnalyzers(analyzers, id, weight).analyzers
         /\ evicted' = IF Has(analyzers, id) /\ postAnalyzers(analyzers, id, weight).status = 200
                       THEN orphaned(id) ELSE evicted
    /\ UNCHANGED <<program, env, codingVars, lifecycle, packetQueue, isProcessing, stats, batch, msgState,
                   probes, httpStatus>>

\* The DELETE /analyzers/:id handler: removeAnalyzer and 200, whatever the id.
deleteAnalyzers(reg, id) == [analyzers |-> removeAnalyzer(reg, id), status |-> 200]

\* DELETE /analyzers/:id
RemoveAnalyzer ==
    /\ program = "gateway" /\ Quiescent
    /\ \E id \in Ids :
         /\ analyzers' = deleteAnalyzers(analyzers, id).analyzers
         /\ evicted' = IF Has(analyzers, id) THEN orphaned(id) ELSE evicted
    /\ UNCHANGED <<program, env, codingVars, lifecycle, packetQueue, isProcessing, stats, batch, msgState,
                   probes, httpStatus>>

RECURSIVE SumChecks(_)
SumChecks(s) == IF s = <<>> THEN 0 ELSE s[1].totalChecks + SumChecks(Tail(s))

RECURSIVE SumOver(_, _)
SumOver(f, S) ==
    IF S = {} THEN 0 ELSE LET x == CHOOSE y \in S : TRUE IN f[x] + SumOver(f, S \ {x})

\* The outcomes already recorded plus the probes in flight.
Budget == SumChecks(analyzers) + SumOver(probes, Ids)

\* HealthChecker.checkAllAnalyzers: one probe per registered analyzer.
CheckAllAnalyzers ==
    /\ program = "gateway" /\ Quiescent
    /\ lifecycle.timers > 0
    /\ Len(analyzers) > 0
    /\ Budget + Len(analyzers) <= env.checks
    /\ \A id \in Ids : Has(analyzers, id) => probes[id] < MaxInFlight
    /\ probes' = [id \in Ids |-> IF Has(analyzers, id) THEN probes[id] + 1 ELSE probes[id]]
    /\ UNCHANGED <<program, env, codingVars, lifecycle, analyzers, packetQueue, isProcessing, stats, batch,
                   msgState, httpStatus, evicted>>

\* triggerHealthCheck without the lookup of the analyzer: the probe starts
\* whatever the id.
triggerHealthCheckUnchecked(reg, pr, id) ==
    [probes |-> [pr EXCEPT ![id] = @ + 1], threw |-> FALSE]

\* HealthChecker.triggerHealthCheck(analyzerId) up to its await: the throw of
\* 'Analyzer ... not found', or the start of checkAnalyzerHealth.
triggerHealthCheck(reg, pr, id) ==
    IF ~Has(reg, id)
    THEN [probes |-> pr, threw |-> TRUE]
    ELSE [probes |-> [pr EXCEPT ![id] = @ + 1], threw |-> FALSE]

\* The POST /analyzers/:id/health handler's answer: 500 with the error's
\* message when triggerHealthCheck has thrown, 200 once it has returned.
healthRouteStatus(threw) == IF threw THEN 500 ELSE 200

\* POST /analyzers/:id/health -> triggerHealthCheck(id).  For a registered
\* id the call returns when its probe ends (ProbeResponse).
TriggerHealthCheck ==
    /\ program = "gateway" /\ Quiescent
    /\ \E id \in Ids :
         LET r == triggerHealthCheck(analyzers, probes, id)
         IN  /\ ~r.threw => Budget < env.checks /\ probes[id] < MaxInFlight
             /\ probes' = r.probes
    /\ UNCHANGED <<program, env, codingVars, lifecycle, analyzers, packetQueue, isProcessing, stats, batch,
                   msgState, httpStatus, evicted>>

\* performHealthCheck: true for a 2xx answer; axios rejects every other
\* status (validateStatus), a refused connection and a timeout, and the
\* catch block of checkAnalyzerHealth turns the throw into a failure.
performHealthCheck(status) == status = "2xx"

\* HealthChecker.checkAnalyzerHealth resumes after performHealthCheck:
\* updateAnalyzerHealth(analyzerId, isHealthy, responseTime), once.  The
\* probe that answers is one started against the Analyzer object now in the
\* Map (late = FALSE) or against one deleted since (late = TRUE).
ProbeResponse ==
    /\ program = "gateway" /\ Quiescent
    /\ \E id \in Ids, status \in Statuses, rt \in ResponseTimes, late \in BOOLEAN :
         /\ IF late THEN evicted.probes[id] > 0 ELSE probes[id] > evicted.probes[id]
         /\ probes' = [probes EXCEPT ![id] = @ - 1]
         /\ evicted' = IF late THEN [evicted EXCEPT !.probes[id] = @ - 1] ELSE evicted
         /\ analyzers' = updateAnalyzerHealth(analyzers, id, performHealthCheck(status), rt)
    /\ UNCHANGED <<program, env, codingVars, lifecycle, packetQueue, isProcessing, stats, batch, msgState,
                   httpStatus>>

\* The HealthChecker's constructor before its call of start(): isRunning =
\* false, intervalId = null (0).
NotStarted == [isRunning |-> FALSE, intervalId |-> 0, timers |-> 0, exited |-> FALSE]

\* start without the test of isRunning: every call arms a timer.
startAgain(lc) ==
    [lc EXCEPT !.isRunning = TRUE, !.intervalId = 1, !.timers = @ + 1]

\* HealthChecker.start: nothing when running; else isRunning = true and
\* intervalId = setInterval(checkAllAnalyzers).
start(lc) ==
    IF lc.isRunning THEN lc
    ELSE [lc EXCEPT !.isRunning = TRUE, !.intervalId = 1, !.timers = @ + 1]

\* HealthChecker.start: the 'started' events it emits.
startEmits(lc) == IF lc.isRunning THEN <<>> ELSE <<"started">>

\* HealthChecker.stop: nothing when not running; else isRunning = false,
\* clearInterval(intervalId) and intervalId = null.
stop(lc) ==
    IF ~lc.isRunning THEN lc
    ELSE IF lc.intervalId # 0
         THEN [lc EXCEPT !.isRunning = FALSE, !.intervalId = 0, !.timers = @ - 1]
         ELSE [lc EXCEPT !.isRunning = FALSE]

\* HealthChecker.stop: the 'stopped' events it emits.
stopEmits(lc) == IF ~lc.isRunning THEN <<>> ELSE <<"stopped">>

\* LogsDistributorServer.shutdown: server.close(), healthChecker.stop(),
\* process.exit(0).  The queue and the counters are left as they are.
shutdown(lc) == [stop(lc) EXCEPT !.exited = TRUE]

\* SIGINT or SIGTERM -> shutdown().
Shutdown ==
    /\ program = "gateway" /\ Quiescent
    /\ env.signals > 0
    /\ lifecycle' = shutdown(lifecycle)
    /\ UNCHANGED <<program, env, codingVars, analyzers, packetQueue, isProcessing, stats, batch,
                   msgState, probes, httpStatus, evicted>>

GatewayInit ==
    /\ analyzers = <<>>
    /\ packetQueue = <<>>
    /\ isProcessing = FALSE
    /\ stats = [packetsReceived |-> 0, packetsProcessed |-> 0,
                packetsDropped |-> 0, errors |-> 0]
    /\ batch = <<>>
    /\ msgState = <<>>
    /\ probes = [id \in Ids |-> 0]
    /\ httpStatus = 0
    /\ lifecycle = start(NotStarted)
    /\ evicted = [msgs |-> {}, probes |-> [id \in Ids |-> 0]]

GatewayNext ==
    \/ PostLogs
    \/ ProcessQueue
    \/ Distribute
    \/ SendResponse
    \/ DistributeCatch
    \/ CompletePacket
    \/ AddAnalyzer
    \/ RemoveAnalyzer
    \/ CheckAllAnalyzers
    \/ TriggerHealthCheck
    \/ ProbeResponse

\* ------------------------------------- Distributor, FaultTolerantDistributor
\* Array indices are 1-based here and 0-based in the code.

\* A count that is not a number: undefined++ on an index past the end of
\* analyzerCounts, and the holes such a write leaves.
NaN == -1

\* What the environment of one behaviour of the coding-questions classes does
\* at most, and the longest weights array it constructs the distributor with:
\* concurrent calls; or one call among rounds of health checks of one
\* analyzer; or one call, one round of health checks and reconfigurations.
CodingEnvironments ==
    { [ids |-> {}, weights |-> {}, packets |-> MaxCalls, checks |-> 0, reconfigs |-> 0,
       size |-> MaxAnalyzers,
       options |-> NoOptions, signals |-> 0],
      [ids |-> {}, weights |-> {}, packets |-> 1, checks |-> MaxRounds, reconfigs |-> 0,
       size |-> 1,
       options |-> NoOptions, signals |-> 0],
      [ids |-> {}, weights |-> {}, packets |-> 1, checks |-> 1, reconfigs |-> MaxReconfigs,
       size |-> MaxAnalyzers,
       options |-> NoOptions, signals |-> 0] }

\* The weights arrays of a configuration.
Configurations == UNION {[1 .. n -> Weights] : n \in 1 .. MaxAnalyzers}

Calls == 1 .. MaxCalls

\* AsyncLock: no function holds the lock.
None == [kind |-> "none", id |-> 0, ok |-> FALSE]
\* new AsyncLock(); holder # None is `locked`, immediates counts the
\* setImmediate(() => this.processQueue()) callbacks not yet run.
NewLock == [holder |-> None, queue |-> <<>>, immediates |-> 0]

Idle == [pc |-> "idle", n |-> 0, k |-> 0, sel |-> 0, ok |-> FALSE]

\* FaultTolerantDistributor.getHealthyAnalyzers: the healthy indices, ascending.
getHealthyIndices(h) ==
    SelectSeq([i \in 1 .. Len(h.healthy) |-> i], LAMBDA i : h.healthy[i])

RECURSIVE SumSeq(_)
SumSeq(s) == IF s = <<>> THEN 0 ELSE s[1] + SumSeq(Tail(s))

\* FaultTolerantDistributor.selectAnalyzer's loop over healthyWeights, for
\* random = num / den: the position of the first weight with
\* random <= cumulativeWeight, and the last position when there is none.
ftdWeightedPick(healthyWeights, num, den) ==
    LET hit == {j \in 1 .. Len(healthyWeights) :
                   num <= SumSeq(SubSeq(healthyWeights, 1, j)) * den}
    IN  IF hit # {} THEN Min(hit) ELSE Len(healthyWeights)

\* FaultTolerantDistributor.selectAnalyzer with Math.random() = num / den;
\* 0 stands for the throw of 'No healthy analyzers available'.  An index past
\* the end of weights has weight undefined: totalWeight and random are NaN,
\* every comparison is false and the last healthy index is returned.
ftdSelectAnalyzerAt(w, h, num, den) ==
    LET healthyIndices == getHealthyIndices(h)
        n == Len(healthyIndices)
        undef == \E j \in 1 .. n : healthyIndices[j] > Len(w)
        healthyWeights == [j \in 1 .. n |-> w[healthyIndices[j]]]
        totalWeight == SumSeq(healthyWeights)
    IN  IF n = 0 THEN 0
        ELSE IF undef THEN healthyIndices[n]
        ELSE IF totalWeight <= 0 THEN healthyIndices[((num * n) \div den) + 1]
        ELSE healthyIndices[ftdWeightedPick(healthyWeights, num * totalWeight, den)]

\* FaultTolerantDistributor.selectAnalyzer with a draw of the grid:
\* Math.random() = u / RandomGrid.
ftdSelectAnalyzer(w, h, u) == ftdSelectAnalyzerAt(w, h, u, RandomGrid)

\* recordSuccess that lets the analyzer recover only when the count exceeds
\* the threshold.
recordSuccessAbove(h, index) ==
    LET c == [h EXCEPT !.successCounts[index] = @ + 1, !.failureCounts[index] = 0]
    IN  IF ~c.healthy[index] /\ c.successCounts[index] > recoveryThreshold
        THEN [c EXCEPT !.healthy[index] = TRUE] ELSE c

\* The function recordSuccess runs under the lock.
recordSuccess(h, index) ==
    LET c == [h EXCEPT !.successCounts[index] = @ + 1, !.failureCounts[index] = 0]
    IN  IF ~c.healthy[index] /\ c.successCounts[index] >= recoveryThreshold
        THEN [c EXCEPT !.healthy[index] = TRUE] ELSE c

\* recordFailure that marks the analyzer only when the count exceeds the
\* threshold.
recordFailureAbove(h, index) ==
    LET c == [h EXCEPT !.failureCounts[index] = @ + 1, !.successCounts[index] = 0]
    IN  IF c.healthy[index] /\ c.failureCounts[index] > failureThreshold
        THEN [c EXCEPT !.healthy[index] = FALSE] ELSE c

\* The function recordFailure runs under the lock.
recordFailure(h, index) ==
    LET c == [h EXCEPT !.failureCounts[index] = @ + 1, !.successCounts[index] = 0]
    IN  IF c.healthy[index] /\ c.failureCounts[index] >= failureThreshold
        THEN [c EXCEPT !.healthy[index] = FALSE] ELSE c

\* processQueue without the test of `locked`: the first waiter's function
\* runs although another one holds the lock.
lockProcessQueueReentrant(lock, h, index) ==
    IF lock.queue = <<>>
    THEN [lock |-> lock, health |-> h]
    ELSE [lock |-> [lock EXCEPT !.holder = Head(lock.queue), !.queue = Tail(@)],
          health |-> IF Head(lock.queue).ok THEN recordSuccess(h, index)
                     ELSE recordFailure(h, index)]

\* processQueue that takes the newest waiter, queue.pop().
lockProcessQueueNewest(lock, h, index) ==
    IF lock.holder # None \/ lock.queue = <<>>
    THEN [lock |-> lock, health |-> h]
    ELSE [lock |-> [lock EXCEPT !.holder = lock.queue[Len(lock.queue)],
                                !.queue = SubSeq(@, 1, Len(@) - 1)],
          health |-> h]

\* AsyncLock.processQueue up to `await fn()`: returns at once when locked or
\* when nobody waits, else locks, takes the first waiter and runs its function
\* (which has no await of its own, so it runs to its end here).
\* A waiter of kind "call" or "check" carries the body of recordSuccess (ok)
\* or of recordFailure; one of kind "fn" carries a function of some other
\* user of the class, which returns (ok) or throws and leaves the
\* distributor's arrays alone.
lockProcessQueue(lock, h, index) ==
    IF lock.holder # None \/ lock.queue = <<>>
    THEN [lock |-> lock, health |-> h]
    ELSE [lock |-> [lock EXCEPT !.holder = Head(lock.queue), !.queue = Tail(@)],
          health |-> IF Head(lock.queue).kind = "fn" THEN h
                     ELSE IF Head(lock.queue).ok THEN recordSuccess(h, index)
                     ELSE recordFailure(h, index)]

\* acquire without a queue: the function runs when the lock is free and is
\* dropped when it is not.
acquireDrops(lock, h, index, waiter) ==
    IF lock.holder # None
    THEN [lock |-> lock, health |-> h]
    ELSE lockProcessQueue([lock EXCEPT !.queue = Append(@, waiter)], h, index)

\* AsyncLock.acquire(fn): queue.push, then processQueue().
acquire(lock, h, index, waiter) ==
    lockProcessQueue([lock EXCEPT !.queue = Append(@, waiter)], h, index)

\* Distributor.distribute's loop from the top of an iteration to its await:
\* the end of the loop, or distributeSingleMessage -> selectAnalyzer, which
\* throws (the rejection is caught a microtask later) or is followed by the
\* call of the analyzer.
nextMessage(call, w, h, u) ==
    IF call.k = call.n
    THEN [call EXCEPT !.pc = "finished", !.sel = 0, !.ok = FALSE]
    ELSE IF ftdSelectAnalyzer(w, h, u) = 0
         THEN [call EXCEPT !.pc = "threw", !.sel = 0, !.ok = FALSE]
         ELSE [call EXCEPT !.pc = "analyze", !.sel = ftdSelectAnalyzer(w, h, u),
                           !.ok = FALSE]

\* A count written from a stale read: analyzerCounts[selectedIndex] = 1.
countSelectedStale(counts, index) ==
    IF index <= Len(counts)
    THEN [counts EXCEPT ![index] = 1]
    ELSE counts \o [j \in 1 .. (index - Len(counts)) |-> NaN]

\* this.stats.analyzerCounts[selectedIndex]++
countSelected(counts, index) ==
    IF index <= Len(counts)
    THEN [counts EXCEPT ![index] = IF @ = NaN THEN NaN ELSE @ + 1]
    ELSE counts \o [j \in 1 .. (index - Len(counts)) |-> NaN]

\* Some microtask is queued: the continuation of a lock's processQueue after
\* `await fn()`, or the continuation of a distribute loop.  Timers and
\* setImmediate callbacks wait for these; calls made by the user of the class
\* and analyzer promises do not.
MicrotaskPending ==
    \/ \E i \in 1 .. Len(stateLocks) : stateLocks[i].holder # None
    \/ \E c \in Calls : calls[c].pc \in {"resume", "threw"}

\* Distributor.distribute(logPacket) with n messages, up to its first await:
\* the packet and its messages are counted, then the loop starts.
distributorDistribute(st, w, h, n, u) ==
    [call |-> nextMessage([Idle EXCEPT !.n = n], w, h, u),
     stats |-> [st EXCEPT !.totalPackets = @ + 1, !.totalMessages = @ + n]]

\* A distribute without the check for healthy analyzers: the call always
\* reaches super.distribute(logPacket).
ftdDistributeUnchecked(st, w, h, n, u) == distributorDistribute(st, w, h, n, u)

\* FaultTolerantDistributor.distribute(logPacket) with n messages: the throw
\* of 'No healthy analyzers available', or super.distribute(logPacket).
ftdDistribute(st, w, h, n, u) ==
    IF getHealthyIndices(h) = <<>>
    THEN [call |-> [Idle EXCEPT !.pc = "rejected", !.n = n], stats |-> st]
    ELSE distributorDistribute(st, w, h, n, u)

\* A call of FaultTolerantDistributor.distribute.
StartDistribute ==
    /\ program = "coding"
    /\ \E c \in Calls, n \in 0 .. MaxMessages, u \in Randoms :
         /\ c <= env.packets
         /\ calls[c].pc = "idle"
         /\ \A d \in Calls : d < c => calls[d].pc # "idle"
         /\ calls' = [calls EXCEPT ![c] = ftdDistribute(dstats, weights, health, n, u).call]
         /\ dstats' = ftdDistribute(dstats, weights, health, n, u).stats
    /\ UNCHANGED <<program, env, gatewayVars, weights, health, stateLocks, checks, used>>

\* The loop's catch block for a message whose selectAnalyzer threw, and the
\* next iteration.
SelectThrew ==
    /\ program = "coding"
    /\ \E c \in Calls, u \in Randoms :
         /\ calls[c].pc = "threw"
         /\ calls' = [calls EXCEPT ![c] =
                nextMessage([@ EXCEPT !.k = @ + 1], weights, health, u)]
    /\ UNCHANGED <<program, env, gatewayVars, weights, health, stateLocks, dstats,
                   checks, used>>

\* FaultTolerantDistributor.callAnalyzer resumes: analyze(message) resolved
\* (ok) or rejected; recordSuccess / recordFailure -> stateLocks[index].acquire.
AnalyzeDone ==
    /\ program = "coding"
    /\ \E c \in Calls, ok \in BOOLEAN :
         /\ calls[c].pc = "analyze"
         /\ LET i == calls[c].sel
                r == acquire(stateLocks[i], health, i,
                             [kind |-> "call", id |-> c, ok |-> ok])
            IN  /\ stateLocks' = [stateLocks EXCEPT ![i] = r.lock]
                /\ health' = r.health
         /\ calls' = [calls EXCEPT ![c].pc = "locking", ![c].ok = ok]
    /\ UNCHANGED <<program, env, gatewayVars, weights, dstats, checks, used>>

\* The promise of acquire(fn) once fn has returned (resolve) or thrown
\* (reject).
settle(returned) == IF returned THEN "resolved" ELSE "rejected"

\* AsyncLock.processQueue resumes after `await fn()`: resolve(result) or, in
\* the catch block, reject(error); then the finally block: locked = false,
\* setImmediate(processQueue).
LockRelease ==
    /\ program \in {"coding", "lock"}
    /\ \E i \in 1 .. Len(stateLocks) :
         LET w == stateLocks[i].holder
         IN  /\ w # None
             /\ stateLocks' = [stateLocks EXCEPT ![i].holder = None,
                                                 ![i].immediates = @ + 1]
             /\ IF w.kind = "call"
                THEN /\ calls' = [calls EXCEPT ![w.id].pc = "resume"]
                     /\ UNCHANGED checks
                ELSE IF w.kind = "fn"
                THEN /\ calls' = [calls EXCEPT ![w.id].pc = settle(w.ok)]
                     /\ UNCHANGED checks
                ELSE /\ checks' = [checks EXCEPT ![w.id] = "idle"]
                     /\ UNCHANGED calls
    /\ UNCHANGED <<program, env, gatewayVars, weights, health, dstats, used>>

\* The setImmediate callback of a lock: processQueue().
LockImmediate ==
    /\ program \in {"coding", "lock"} /\ ~MicrotaskPending
    /\ \E i \in 1 .. Len(stateLocks) :
         /\ stateLocks[i].immediates > 0
         /\ LET r == lockProcessQueue([stateLocks[i] EXCEPT !.immediates = @ - 1],
                                      health, i)
            IN  /\ stateLocks' = [stateLocks EXCEPT ![i] = r.lock]
                /\ health' = r.health
    /\ UNCHANGED <<program, env, gatewayVars, weights, dstats, calls, checks, used>>

\* The distribute loop resumes after its message: callAnalyzer returned, the
\* selected index is counted; or callAnalyzer threw, the catch block logs.
\* Then the next iteration.
Resume ==
    /\ program = "coding"
    /\ \E c \in Calls, u \in Randoms :
         /\ calls[c].pc = "resume"
         /\ dstats' = IF calls[c].ok
                      THEN [dstats EXCEPT !.analyzerCounts =
                                countSelected(@, calls[c].sel)]
                      ELSE dstats
         /\ calls' = [calls EXCEPT ![c] =
                nextMessage([@ EXCEPT !.k = @ + 1], weights, health, u)]
    /\ UNCHANGED <<program, env, gatewayVars, weights, health, stateLocks, checks, used>>

\* The setInterval callback of startHealthChecking: performHealthChecks starts
\* performSingleHealthCheck(index) for every index of this.analyzers.
PerformHealthChecks ==
    /\ program = "coding" /\ ~MicrotaskPending
    /\ used.rounds < env.checks
    /\ \A i \in 1 .. Len(weights) : checks[i] = "idle"
    /\ checks' = [i \in 1 .. MaxAnalyzers |->
                     IF i <= Len(weights) THEN "timer" ELSE checks[i]]
    /\ used' = [used EXCEPT !.rounds = @ + 1]
    /\ UNCHANGED <<program, env, gatewayVars, weights, health, stateLocks, dstats, calls>>

\* performSingleHealthCheck(index) resumes after its timer: recordSuccess or
\* recordFailure.  For an index that has no lock, stateLocks[index].acquire
\* throws a TypeError in both, which Promise.allSettled swallows.
HealthCheckDone ==
    /\ program = "coding" /\ ~MicrotaskPending
    /\ \E i \in 1 .. MaxAnalyzers, ok \in BOOLEAN :
         /\ checks[i] = "timer"
         /\ IF i <= Len(stateLocks)
            THEN LET r == acquire(stateLocks[i], health, i,
                                  [kind |-> "check", id |-> i, ok |-> ok])
                 IN  /\ stateLocks' = [stateLocks EXCEPT ![i] = r.lock]
                     /\ health' = r.health
                     /\ checks' = [checks EXCEPT ![i] = "locking"]
            ELSE /\ checks' = [checks EXCEPT ![i] = "idle"]
                 /\ UNCHANGED <<stateLocks, health>>
    /\ UNCHANGED <<program, env, gatewayVars, weights, dstats, calls, used>>

\* Distributor.updateConfiguration(newAnalyzers, newWeights), which the
\* FaultTolerantDistributor inherits.
updateConfiguration(st, newWeights) ==
    [weights |-> newWeights,
     stats |-> [st EXCEPT !.analyzerCounts = [j \in 1 .. Len(newWeights) |-> 0]]]

UpdateConfiguration ==
    /\ program = "coding"
    /\ used.reconfigs < env.reconfigs
    /\ \E w \in Configurations :
         /\ weights' = updateConfiguration(dstats, w).weights
         /\ dstats' = updateConfiguration(dstats, w).stats
    /\ used' = [used EXCEPT !.reconfigs = @ + 1]
    /\ UNCHANGED <<program, env, gatewayVars, health, stateLocks, calls, checks>>

\* new FaultTolerantDistributor(analyzers, w)
NewDistributor(w) ==
    /\ weights = w
    /\ health = [healthy |-> [i \in 1 .. Len(w) |-> TRUE],
                 failureCounts |-> [i \in 1 .. Len(w) |-> 0],
                 successCounts |-> [i \in 1 .. Len(w) |-> 0]]
    /\ stateLocks = [i \in 1 .. Len(w) |-> NewLock]
    /\ dstats = [totalPackets |-> 0, totalMessages |-> 0,
                 analyzerCounts |-> [i \in 1 .. Len(w) |-> 0]]
    /\ calls = [c \in Calls |-> Idle]
    /\ checks = [i \in 1 .. MaxAnalyzers |-> "idle"]
    /\ used = [rounds |-> 0, reconfigs |-> 0]

CodingInit == \E w \in Configurations : Len(w) <= env.size /\ NewDistributor(w)

\* The gateway was started, not the coding-questions classes.
CodingUnused == NewDistributor(<<>>)

\* The coding-questions classes are in use, not the gateway.
GatewayUnused == GatewayInit

CodingNext ==
    \/ StartDistribute
    \/ SelectThrew
    \/ AnalyzeDone
    \/ LockRelease
    \/ LockImmediate
    \/ Resume
    \/ PerformHealthChecks
    \/ HealthCheckDone
    \/ UpdateConfiguration

vars == <<program, env, gatewayVars, codingVars>>

Init ==
    \/ program = "gateway" /\ env \in Environments /\ GatewayInit /\ CodingUnused
    \/ program = "coding" /\ env \in CodingEnvironments /\ GatewayUnused /\ CodingInit

Next == GatewayNext \/ Shutdown \/ CodingNext

Spec == Init /\ [][Next]_vars

\* ------------------------------------------------------------ fair gateway
\* The gateway with its timers running and its requests answered: one
\* analyzer, FairPackets packets, probes and dispatches up to FairChecks
\* outcomes.
FairIds == {"a1"}

FairEnvironments ==
    { [ids |-> FairIds, weights |-> {1}, packets |-> FairPackets, checks |-> FairChecks,
       reconfigs |-> 0, size |-> 0,
       options |-> NoOptions, signals |-> 0] }

FairInit == program = "gateway" /\ env \in FairEnvironments /\ GatewayInit /\ CodingUnused

\* setInterval(processQueue) and setInterval(checkAllAnalyzers) keep firing;
\* synchronous code and microtasks run to their end; every axios request
\* ends, with an answer or with its timeout.
Fairness ==
    /\ WF_vars(ProcessQueue)
    /\ WF_vars(Distribute)
    /\ WF_vars(SendResponse)
    /\ WF_vars(DistributeCatch)
    /\ WF_vars(CompletePacket)
    /\ WF_vars(CheckAllAnalyzers)
    /\ WF_vars(ProbeResponse)

FairSpec == FairInit /\ [][GatewayNext]_vars /\ Fairness

\* ------------------------------------------------- gateway, slow analyzers
\* The gateway with its timers running and two analyzers that may never
\* answer: no axios request is assumed to end.
SlowEnvironments ==
    { [ids |-> Ids, weights |-> {1}, packets |-> SlowPackets, checks |-> SlowChecks,
       reconfigs |-> 0, size |-> 0, options |-> NoOptions, signals |-> 0] }

SlowInit == program = "gateway" /\ env \in SlowEnvironments /\ GatewayInit /\ CodingUnused

\* The timers keep firing, synchronous code and microtasks run to their end.
TimersOnly ==
    /\ WF_vars(ProcessQueue)
    /\ WF_vars(Distribute)
    /\ WF_vars(DistributeCatch)
    /\ WF_vars(CompletePacket)
    /\ WF_vars(CheckAllAnalyzers)

SlowSpec == SlowInit /\ [][GatewayNext]_vars /\ TimersOnly

\* ------------------------------------------------------- AsyncLock, alone
\* One AsyncLock and the users of the class that call acquire(fn) on it, with
\* functions that return and functions that throw.  calls[c] is the promise of
\* the c-th acquire call: "idle" before the call, "locking" while pending,
\* then "resolved" or "rejected".
LockEnvironments ==
    { [ids |-> {}, weights |-> {}, packets |-> MaxAcquires, checks |-> 0,
       reconfigs |-> 0, size |-> 0, options |-> NoOptions, signals |-> 0] }

Acquirers == 1 .. MaxAcquires

\* acquire(fn): the c-th call, made at any moment.
Acquire ==
    /\ program = "lock"
    /\ \E c \in Acquirers, ok \in BOOLEAN :
         /\ c <= env.packets
         /\ calls[c].pc = "idle"
         /\ \A d \in Acquirers : d < c => calls[d].pc # "idle"
         /\ LET r == acquire(stateLocks[1], health, 1,
                             [kind |-> "fn", id |-> c, ok |-> ok])
            IN  /\ stateLocks' = [stateLocks EXCEPT ![1] = r.lock]
                /\ health' = r.health
         /\ calls' = [calls EXCEPT ![c].pc = "locking", ![c].ok = ok]
    /\ UNCHANGED <<program, env, gatewayVars, weights, dstats, checks, used>>

\* new AsyncLock(), no acquire call made yet.
LockInit ==
    /\ program = "lock" /\ env \in LockEnvironments /\ GatewayUnused
    /\ weights = <<>>
    /\ health = [healthy |-> <<>>, failureCounts |-> <<>>, successCounts |-> <<>>]
    /\ stateLocks = <<NewLock>>
    /\ dstats = [totalPackets |-> 0, totalMessages |-> 0, analyzerCounts |-> <<>>]
    /\ calls = [c \in Acquirers |-> Idle]
    /\ checks = [i \in 1 .. MaxAnalyzers |-> "idle"]
    /\ used = [rounds |-> 0, reconfigs |-> 0]

LockNext == Acquire \/ LockRelease \/ LockImmediate

\* The continuation of `await fn()` is a microtask and runs once the function
\* has ended; the setImmediate callback runs in the next check phase of the
\* event loop.
LockFairness == WF_vars(LockRelease) /\ WF_vars(LockImmediate)

LockSpec == LockInit /\ [][LockNext]_vars /\ LockFairness

\* ==================================================================== claims

\* C1: conservation of packets.  In every reachable state of the gateway,
\* packetsProcessed + packetsDropped + the packets in packetQueue + the packets
\* drained but not yet completed = packetsReceived.
C1_Conservation ==
    program = "gateway" =>
        stats.packetsProcessed + stats.packetsDropped + Len(packetQueue) + Len(batch)
            = stats.packetsReceived

\* Every packet the environment had was submitted: one was dropped, one was
\* processed and one is drained and not yet completed.
C1_Witness ==
    /\ stats.packetsReceived = MaxPackets
    /\ stats.packetsDropped > 0 /\ stats.packetsProcessed > 0 /\ Len(batch) > 0

\* C2: backpressure.  The queue never holds more than maxQueueSize packets,
\* and a submission (a step that counts a packet as received) that finds it
\* holding exactly maxQueueSize is answered 429, leaves the queue as it was and
\* adds exactly 1 to packetsDropped.
C2_Backpressure ==
    /\ [](Len(packetQueue) <= maxQueueSize)
    /\ [][(/\ stats'.packetsReceived = stats.packetsReceived + 1
           /\ Len(packetQueue) = maxQueueSize)
          => (/\ httpStatus' = 429
              /\ packetQueue' = packetQueue
              /\ stats'.packetsDropped = stats.packetsDropped + 1)]_vars

\* A submission has just been rejected by a full queue.
C2_Witness ==
    /\ httpStatus = 429 /\ Len(packetQueue) = maxQueueSize
    /\ stats.packetsDropped > 0

\* C3: the healthy flag of an analyzer record flips only at a threshold.  In
\* every step, a record that goes from healthy to unhealthy has just got one
\* more outcome that took consecutiveFailures from FailureThreshold - 1 to
\* FailureThreshold, and a record that goes from unhealthy to healthy has just
\* got one more outcome that took consecutiveSuccesses from
\* SuccessThreshold - 1 to SuccessThreshold.  A record with totalChecks = 0
\* after the step is a new record that an admission has put in place of the
\* old one, not the old record flipping.
C3_FlipOnlyAtThreshold ==
    [][\A id \in Ids :
         (Has(analyzers, id) /\ Has(analyzers', id)) =>
            LET a == Lookup(analyzers, id)
                b == Lookup(analyzers', id)
            IN  /\ (a.healthy /\ ~b.healthy) =>
                      /\ b.totalChecks = a.totalChecks + 1
                      /\ a.consecutiveFailures = FailureThreshold - 1
                      /\ b.consecutiveFailures = FailureThreshold
                /\ (~a.healthy /\ b.healthy /\ b.totalChecks > 0) =>
                      /\ b.totalChecks = a.totalChecks + 1
                      /\ a.consecutiveSuccesses = SuccessThreshold - 1
                      /\ b.consecutiveSuccesses = SuccessThreshold]_vars

\* An analyzer that was degraded by failures and has recovered by successes.
C3_Witness ==
    \E i \in 1 .. Len(analyzers) :
        /\ analyzers[i].healthy
        /\ analyzers[i].consecutiveSuccesses = SuccessThreshold
        /\ analyzers[i].totalFailures >= FailureThreshold

\* C4: a message sent to an analyzer records exactly one outcome.  The send
\* of a message ends with the step that takes it out of "inflight" and, when
\* it failed, the later step that takes it from "rejected" to "done"; over
\* these steps the analyzer's totalChecks grows by exactly 1 (and, for a
\* failure, totalFailures and consecutiveFailures by exactly 1, with
\* lastResponseTime the round trip): all of it at the first step, nothing at
\* the second.
C4_OneOutcomePerDispatch ==
    [][\A i \in 1 .. Len(msgState) :
         LET id == msgState[i].analyzer
             a == Lookup(analyzers, id)
             b == Lookup(analyzers', id)
         IN  (/\ Len(msgState') = Len(msgState)
              /\ Has(analyzers, id) /\ Has(analyzers', id)) =>
               /\ (msgState[i].st = "inflight" /\ msgState'[i].st = "done") =>
                     /\ b.totalChecks = a.totalChecks + 1
                     /\ b.totalFailures = a.totalFailures
               /\ (msgState[i].st = "inflight" /\ msgState'[i].st = "rejected") =>
                     /\ b.totalChecks = a.totalChecks + 1
                     /\ b.totalFailures = a.totalFailures + 1
                     /\ b.consecutiveFailures = a.consecutiveFailures + 1
                     /\ b.lastResponseTime \in ResponseTimes
               /\ (msgState[i].st = "rejected" /\ msgState'[i].st = "done") =>
                     b = a]_vars

\* C5: a 4xx answer is not a health signal.  The steps that handle a message
\* answered with 4xx add 1 to errors and leave the analyzer's healthy flag and
\* consecutiveFailures as they were.
C5_ClientErrorNotHealthSignal ==
    [][\A i \in 1 .. Len(msgState) :
         LET id == msgState[i].analyzer
             a == Lookup(analyzers, id)
             b == Lookup(analyzers', id)
         IN  (/\ Len(msgState') = Len(msgState)
              /\ Has(analyzers, id) /\ Has(analyzers', id)) =>
               /\ (/\ msgState[i].st = "inflight"
                   /\ msgState'[i] = Rejected(id, "4xx")) =>
                     /\ b.healthy = a.healthy
                     /\ b.consecutiveFailures = a.consecutiveFailures
               /\ (msgState[i] = Rejected(id, "4xx") /\ msgState'[i].st = "done") =>
                     /\ stats'.errors = stats.errors + 1
                     /\ b.healthy = a.healthy
                     /\ b.consecutiveFailures = a.consecutiveFailures]_vars

\* C6: the two streaks of an analyzer are never both positive.  In every
\* reachable state every Analyzer record has consecutiveSuccesses = 0 or
\* consecutiveFailures = 0, and every index of the FaultTolerantDistributor
\* has successCounts = 0 or failureCounts = 0.
C6_StreaksExclusive ==
    /\ \A i \in 1 .. Len(analyzers) :
          analyzers[i].consecutiveSuccesses = 0 \/ analyzers[i].consecutiveFailures = 0
    /\ \A i \in 1 .. Len(health.healthy) :
          health.successCounts[i] = 0 \/ health.failureCounts[i] = 0

\* An analyzer record that is on a failure streak after at least two successes.
C6_Witness ==
    \E i \in 1 .. Len(analyzers) :
        /\ analyzers[i].consecutiveFailures > 0
        /\ analyzers[i].totalChecks >= analyzers[i].totalFailures + 2

\* C7: selectAnalyzer returns only analyzers that are present and healthy at
\* the moment of the selection.  In the gateway, whatever the draw, the id
\* returned is the id of a record of the registry with healthy = true; in the
\* FaultTolerantDistributor, whatever the draw, the index returned is an index
\* of this.analyzers (which is as long as this.weights) with healthy = true.
C7_SelectsPresentAndHealthy ==
    /\ \A u \in Randoms :
          LET id == selectAnalyzer(analyzers, u)
          IN  id # NoAnalyzer => Has(analyzers, id) /\ Lookup(analyzers, id).healthy
    /\ \A u \in Randoms :
          LET i == ftdSelectAnalyzer(weights, health, u)
          IN  i # 0 => /\ i <= Len(weights)
                       /\ i <= Len(health.healthy) /\ health.healthy[i]

\* The spec's rule of selection for random = num / den over the weights ws:
\* the first position whose cumulative weight is greater than random.
FirstAbove(ws, num, den) ==
    Min({j \in 1 .. Len(ws) : num < SumSeq(SubSeq(ws, 1, j)) * den})

WeightsOf(h) == [j \in 1 .. Len(h) |-> h[j].weight]

\* C8: weight-proportional selection.  With at least two healthy analyzers of
\* positive weights w_i and sum S, selectAnalyzer returns, for every draw, the
\* first analyzer in iteration order whose cumulative weight c has r < c, where
\* r = Math.random() * S; and of the values r = 0 .. S-1 exactly w_i select
\* analyzer i.  The same for the FaultTolerantDistributor over its healthy
\* indices, when each of them has a weight.
C8_WeightProportional ==
    /\ LET h == getHealthyAnalyzers(analyzers)
           S == getTotalWeight(analyzers)
       IN  Len(h) >= 2 =>
             /\ \A u \in Randoms :
                   selectAnalyzer(analyzers, u)
                       = h[FirstAbove(WeightsOf(h), u * S, RandomGrid)].id
             /\ \A i \in 1 .. Len(h) :
                   Cardinality({r \in 0 .. (S - 1) : weightedPick(h, r, 1) = i})
                       = h[i].weight
    /\ LET healthyIndices == getHealthyIndices(health)
           n == Len(healthyIndices)
       IN  (n >= 1 /\ \A j \in 1 .. n : healthyIndices[j] <= Len(weights)) =>
             LET ws == [j \in 1 .. n |-> weights[healthyIndices[j]]]
                 S == SumSeq(ws)
             IN  /\ \A u \in Randoms :
                       ftdSelectAnalyzer(weights, health, u)
                           = healthyIndices[FirstAbove(ws, u * S, RandomGrid)]
                 /\ \A j \in 1 .. n :
                       Cardinality({r \in 0 .. (S - 1) : ftdWeightedPick(ws, r, 1) = j})
                           = ws[j]

\* C9: packet isolation.  In every step of the gateway: packetsProcessed
\* grows only by 1, only for the head packet of the drained batch and only
\* when each of its messages is done; a drained packet leaves the batch only
\* that way; while a packet is worked on no finished message is attempted again
\* and no message goes back to an earlier stage; errors grows by exactly the
\* number of messages whose failed distribute call ends in the step; and the
\* worker stays in its loop while drained packets remain.  In every step of a
\* Distributor.distribute call the number of messages attempted grows by at
\* most 1 whatever the outcome, and the call ends only with every message of
\* its packet attempted.
C9_PacketIsolation ==
    [][/\ (stats'.packetsProcessed # stats.packetsProcessed) =>
             /\ stats'.packetsProcessed = stats.packetsProcessed + 1
             /\ batch # <<>> /\ batch' = Tail(batch)
             /\ Len(msgState) = Len(batch[1].messages)
             /\ \A i \in 1 .. Len(msgState) : msgState[i].st = "done"
       /\ (batch # <<>> /\ batch' # batch) =>
             /\ stats'.packetsProcessed = stats.packetsProcessed + 1
             /\ stats'.errors = stats.errors
       /\ (batch # <<>> /\ batch' = batch) =>
             /\ Len(msgState') = Len(msgState)
             /\ \A i \in 1 .. Len(msgState) :
                   /\ msgState[i].st = "done" => msgState'[i].st = "done"
                   /\ msgState[i].st = "rejected" =>
                         msgState'[i].st \in {"rejected", "done"}
                   /\ msgState[i].st = "inflight" => msgState'[i].st # "new"
             /\ stats'.errors = stats.errors + Cardinality(
                   {i \in 1 .. Len(msgState) :
                       /\ msgState[i].st \in {"new", "rejected"}
                       /\ msgState'[i].st = "done"})
       /\ (batch' # <<>>) => isProcessing'
       /\ \A c \in Calls :
             /\ calls[c].pc # "idle" =>
                   /\ calls'[c].n = calls[c].n
                   /\ calls'[c].k \in {calls[c].k, calls[c].k + 1}
             /\ calls'[c].pc = "finished" => calls'[c].k = calls'[c].n]_vars

\* The first message of the first packet has failed, and the second message of
\* the same packet has been sent all the same.
C9_Witness ==
    /\ stats.packetsProcessed = 0 /\ stats.errors = 1
    /\ Len(msgState) = 2
    /\ msgState[1].st = "done" /\ msgState[2].st = "inflight"

\* C10: no healthy analyzer at dispatch time.  A step in which distribute is
\* called for a message while no analyzer is healthy finishes the message
\* without sending it, adds 1 to errors and changes neither the queue, nor the
\* drained batch, nor any analyzer record; and the packet leaves the batch only
\* by being counted in packetsProcessed, with the queue as it was.
C10_NoHealthyAnalyzer ==
    [][/\ \A i \in 1 .. Len(msgState) :
             (/\ Len(msgState') = Len(msgState)
              /\ msgState[i].st = "new" /\ msgState'[i].st # "new"
              /\ getHealthyAnalyzers(analyzers) = <<>>) =>
                /\ msgState'[i].st = "done"
                /\ stats'.errors = stats.errors + 1
                /\ packetQueue' = packetQueue /\ batch' = batch
                /\ analyzers' = analyzers
       /\ (batch # <<>> /\ batch' # batch) =>
             /\ batch' = Tail(batch)
             /\ packetQueue' = packetQueue
             /\ stats'.packetsProcessed = stats.packetsProcessed + 1]_vars

\* The one analyzer is unhealthy after three failed probes, and the packet of
\* two messages was processed with two errors and nothing sent.
C10_Witness ==
    /\ Len(analyzers) = 1 /\ ~analyzers[1].healthy
    /\ analyzers[1].totalChecks = FailureThreshold
    /\ stats.packetsProcessed = 1 /\ stats.errors = 2


\* The distribute call of message i of the head packet calls an analyzer at
\* most once: the POST starts from "new" only, its analyzer never changes
\* while it is in flight, and a call that has failed or finished never goes
\* back to "new" or "inflight".
NeverResent ==
    batch' = batch /\ batch # <<>> =>
        \A i \in 1 .. Len(msgState) :
            /\ msgState'[i].st = "inflight" =>
                  \/ msgState[i].st = "new"
                  \/ msgState[i] = msgState'[i]
            /\ msgState[i].st \in {"rejected", "done"} =>
                  msgState'[i].st \in {"rejected", "done"}
            /\ msgState[i].st = "rejected" /\ msgState'[i].st = "rejected" =>
                  msgState'[i] = msgState[i]

\* A message whose distribute call runs while a healthy analyzer is
\* registered is sent to an analyzer.
SentWhenHealthy ==
    batch' = batch /\ batch # <<>> =>
        \A i \in 1 .. Len(msgState) :
            msgState[i].st = "new" /\ msgState'[i].st # "new"
                /\ getHealthyAnalyzers(analyzers) # <<>>
            => msgState'[i].st = "inflight" /\ Has(analyzers, msgState'[i].analyzer)

\* C11: every message of an accepted packet is sent to at most one analyzer
\* and at most once, to exactly one when a healthy analyzer exists at
\* dispatch time, and a failed send is never retried on the same or another
\* analyzer.
C11_AtMostOnceDispatch == [][NeverResent /\ SentWhenHealthy]_vars

\* The at-most-once half of C11 alone.
C11_NeverResent == [][NeverResent]_vars


\* Packet n is waiting in the queue; packet n is in the batch being processed.
Queued(n) == \E i \in 1 .. Len(packetQueue) : packetQueue[i].id = n
InBatch(n) == \E i \in 1 .. Len(batch) : batch[i].id = n

\* Packet n leaves the program in this step.
Leaves(n) == (Queued(n) \/ InBatch(n)) /\ ~(Queued(n) \/ InBatch(n))'

\* C12: every packet accepted by distributePacket is eventually removed from
\* the queue, has every one of its messages attempted and is counted in
\* packetsProcessed, when the processing tick keeps firing and every send
\* terminates: a queued packet is eventually the head of the batch with all
\* its distribute calls finished, it then leaves the batch, and it leaves
\* only in that way, with packetsProcessed one higher.
C12_AcceptedEventuallyProcessed ==
    /\ \A n \in 1 .. FairPackets :
          /\ Queued(n) ~> (batch # <<>> /\ batch[1].id = n /\ AllDone)
          /\ (batch # <<>> /\ batch[1].id = n /\ AllDone) ~> ~(Queued(n) \/ InBatch(n))
    /\ [][\A n \in 1 .. FairPackets :
            Leaves(n) => /\ batch[1].id = n /\ AllDone
                         /\ stats'.packetsProcessed = stats.packetsProcessed + 1]_vars

\* Both packets are accepted, one is counted as processed and the other has
\* left the queue and is being processed.
C12_Witness ==
    /\ stats.packetsProcessed = 1 /\ stats.packetsDropped = 0
    /\ InBatch(FairPackets) /\ packetQueue = <<>>


\* This step delivers the outcome of a send or of a probe that was in flight
\* against an analyzer when removeAnalyzer deleted it.
LateOutcome ==
    \/ \E i \in evicted.msgs : msgState'[i] # msgState[i]
    \/ \E id \in Ids : evicted'.probes[id] < evicted.probes[id]

\* This step sends a message only to an analyzer that is in the registry.
SelectsRegistered ==
    batch' = batch /\ batch # <<>> =>
        \A i \in 1 .. Len(msgState) :
            msgState[i].st = "new" /\ msgState'[i].st = "inflight"
            => Has(analyzers, msgState'[i].analyzer)

\* C13: after removeAnalyzer(id) that analyzer is never selected again, and
\* the outcome of a dispatch or probe that was in flight against it and
\* completes after the removal changes no analyzer record.
C13_RemovedIsNeverUpdated ==
    [][SelectsRegistered /\ (LateOutcome => analyzers' = analyzers)]_vars

\* C13 for the outcomes that arrive while the id is still absent.
C13_DroppedWhileAbsent ==
    [][SelectsRegistered /\
       (\A id \in Ids : evicted'.probes[id] < evicted.probes[id] /\ ~Has(analyzers, id)
                         => analyzers' = analyzers) /\
       (\A i \in evicted.msgs : msgState'[i] # msgState[i]
                                 /\ ~Has(analyzers, msgState[i].analyzer)
                                 => analyzers' = analyzers)]_vars


\* The analyzer id is registered and unhealthy, with f failures recorded so
\* far (at least FailureThreshold, then), and SuccessThreshold more outcomes
\* can still be recorded.
Degraded(id, f) ==
    /\ Has(analyzers, id) /\ ~Lookup(analyzers, id).healthy
    /\ Lookup(analyzers, id).totalFailures = f
    /\ Budget + SuccessThreshold <= env.checks

\* The analyzer id is healthy again and GET /ready answers 200.
Recovered(id) ==
    /\ Has(analyzers, id) /\ Lookup(analyzers, id).healthy
    /\ readyStatus(analyzers) = 200

\* C14: an unhealthy analyzer that stays registered and whose probes succeed
\* from some point on eventually becomes healthy again, and /ready then
\* answers 200: from a state where it is unhealthy, it recovers unless it is
\* removed or another failure is recorded; and it becomes healthy on the
\* outcome that brings its success streak to SuccessThreshold.
C14_RecoveryLiveness ==
    /\ \A id \in FairIds, f \in FailureThreshold .. FairChecks - SuccessThreshold :
          Degraded(id, f) ~> \/ Recovered(id)
                             \/ ~Has(analyzers, id)
                             \/ Lookup(analyzers, id).totalFailures # f
    /\ [][\A id \in Ids :
            /\ Has(analyzers, id) /\ ~Lookup(analyzers, id).healthy
            /\ Has(analyzers', id) /\ Lookup(analyzers', id).healthy
            /\ Lookup(analyzers', id).totalChecks > 0
            => Lookup(analyzers', id).consecutiveSuccesses = SuccessThreshold]_vars

\* The analyzer was unhealthy and has recovered with a streak of
\* SuccessThreshold successes; /ready answers 200.
C14_Witness ==
    /\ Recovered("a1")
    /\ Lookup(analyzers, "a1").totalFailures >= FailureThreshold
    /\ Lookup(analyzers, "a1").consecutiveSuccesses = SuccessThreshold


\* The health checker of this run.
healthChecker == HealthChecker(env.options)

\* This step records one outcome for the analyzer id.
Outcome(id) ==
    /\ Has(analyzers, id) /\ Has(analyzers', id)
    /\ Lookup(analyzers', id).totalChecks = Lookup(analyzers, id).totalChecks + 1

\* C15: with failureThreshold = F and successThreshold = G configured, a
\* healthy analyzer becomes unhealthy exactly on the outcome that brings
\* consecutiveFailures to F, and an unhealthy one becomes healthy exactly on
\* the outcome that brings consecutiveSuccesses to G.
C15_ConfiguredThresholds ==
    [][program = "gateway" =>
       \A id \in Ids :
          Outcome(id) =>
             LET a == Lookup(analyzers, id)
                 b == Lookup(analyzers', id)
             IN  /\ a.healthy =>
                       (~b.healthy <=> b.consecutiveFailures = healthChecker.failureThreshold)
                 /\ ~a.healthy =>
                       (b.healthy <=> b.consecutiveSuccesses = healthChecker.successThreshold)]_vars


\* C16: admitting an analyzer with an empty id or with weight <= 0 fails with
\* an invalid-argument error (400) and leaves the registry unchanged, and so
\* every analyzer in the registry has a strictly positive weight.
C16_InvalidAdmissionRejected ==
    /\ \A id \in env.ids, weight \in env.weights :
          id = EmptyId \/ weight <= 0 =>
              postAnalyzers(analyzers, id, weight) = [analyzers |-> analyzers, status |-> 400]
    /\ \A i \in 1 .. Len(analyzers) : analyzers[i].weight > 0

\* The half of C16 about the id: a body without an id is answered with 400
\* and changes nothing, and no analyzer has an empty id.
C16_EmptyIdRejected ==
    /\ \A weight \in env.weights :
          postAnalyzers(analyzers, EmptyId, weight) = [analyzers |-> analyzers, status |-> 400]
    /\ \A i \in 1 .. Len(analyzers) : analyzers[i].id # EmptyId


\* The records of a registry, without their order.
Records(reg) == {reg[i] : i \in 1 .. Len(reg)}

\* C17: admitting an id that is already present is equivalent to evicting it
\* and then admitting it with the new parameters: both lead to the same
\* registry (same records, same listing order, same selection result for
\* every draw), with the record's health counters reset and healthy = true.
C17_ReadmitIsEvictThenAdmit ==
    program = "gateway" =>
    \A id \in Ids, weight \in Weights :
        Has(analyzers, id) =>
            LET admitted == addAnalyzer(analyzers, id, weight)
                readmitted == addAnalyzer(removeAnalyzer(analyzers, id), id, weight)
            IN  /\ Records(admitted) = Records(readmitted)
                /\ Lookup(admitted, id) = NewAnalyzer(id, weight)
                /\ admitted = readmitted
                /\ \A u \in Randoms :
                      selectAnalyzer(admitted, u) = selectAnalyzer(readmitted, u)

\* C17 without the listing order: the two sequences lead to the same set of
\* records, and the record of id is a new one.
C17_SameRecords ==
    program = "gateway" =>
    \A id \in Ids, weight \in Weights :
        Has(analyzers, id) =>
            LET admitted == addAnalyzer(analyzers, id, weight)
                readmitted == addAnalyzer(removeAnalyzer(analyzers, id), id, weight)
            IN  /\ Records(admitted) = Records(readmitted)
                /\ Lookup(admitted, id) = NewAnalyzer(id, weight)
                /\ Lookup(readmitted, id) = NewAnalyzer(id, weight)


\* C18: removeAnalyzer(id) applied twice in a row leaves the same registry
\* and emits the same removal notifications as applying it once (the second
\* application emits none), and removeAnalyzer of an unknown id changes
\* nothing, emits nothing and raises no error.
C18_EvictIdempotent ==
    program = "gateway" =>
    \A id \in Ids :
        LET once == deleteAnalyzers(analyzers, id)
            twice == deleteAnalyzers(once.analyzers, id)
        IN  /\ twice.analyzers = once.analyzers
            /\ removeAnalyzerEmits(analyzers, id) \o removeAnalyzerEmits(once.analyzers, id)
                  = removeAnalyzerEmits(analyzers, id)
            /\ ~Has(analyzers, id) =>
                  /\ once = [analyzers |-> analyzers, status |-> 200]
                  /\ removeAnalyzerEmits(analyzers, id) = <<>>

\* An analyzer has just been removed while a message was in flight to it,
\* and another analyzer is still registered: removing it again is the second
\* application.
C18_Witness ==
    /\ Len(analyzers) > 0
    /\ \E i \in evicted.msgs : ~Has(analyzers, msgState[i].analyzer)


\* A probe of the analyzer id ends in this step.
ProbeEnds(id) == probes'[id] = probes[id] - 1

\* C19: every health probe of a registered analyzer records exactly one
\* outcome, with the updateHealth that dispatch uses: a success for a 2xx
\* answer and a failure for anything else, on top of the streaks that the
\* earlier probe and dispatch outcomes have left; no other record changes.
C19_ProbeRecordsOneOutcome ==
    /\ \A status \in Statuses : performHealthCheck(status) <=> status = "2xx"
    /\ [][\A id \in Ids :
            ProbeEnds(id) =>
               IF Has(analyzers, id)
               THEN LET a == Lookup(analyzers, id)
                        b == Lookup(analyzers', id)
                    IN  /\ Has(analyzers', id)
                        /\ b.totalChecks = a.totalChecks + 1
                        /\ \/ /\ b.consecutiveSuccesses = a.consecutiveSuccesses + 1
                              /\ b.consecutiveFailures = 0
                              /\ b.totalFailures = a.totalFailures
                           \/ /\ b.consecutiveFailures = a.consecutiveFailures + 1
                              /\ b.consecutiveSuccesses = 0
                              /\ b.totalFailures = a.totalFailures + 1
                        /\ \E ok \in BOOLEAN, rt \in ResponseTimes : b = updateHealth(a, ok, rt)
                        /\ \A other \in Ids \ {id} :
                              Has(analyzers, other) =>
                                 Lookup(analyzers', other) = Lookup(analyzers, other)
               ELSE analyzers' = analyzers]_vars

\* A failed probe and a failed dispatch have added up: after one failure
\* recorded by a probe, the two failures recorded for one failed send (the
\* last one by distribute's catch block, with response time 0) make the
\* analyzer unhealthy.
C19_Witness ==
    /\ stats.errors = 1 /\ Has(analyzers, "a1")
    /\ ~Lookup(analyzers, "a1").healthy
    /\ Lookup(analyzers, "a1").totalChecks = FailureThreshold
    /\ Lookup(analyzers, "a1").consecutiveFailures = FailureThreshold
    /\ Lookup(analyzers, "a1").lastResponseTime = 0
    /\ probes["a1"] = 0 /\ batch = <<>>


\* triggerHealthCheck of an id that is not registered throws and starts no
\* probe, so that no analyzer record changes.
UnknownIdNotFound ==
    \A id \in Ids :
        ~Has(analyzers, id) =>
            /\ triggerHealthCheck(analyzers, probes, id) = [probes |-> probes, threw |-> TRUE]
            /\ healthRouteStatus(TRUE) = 500

NothingAfterExit == lifecycle.exited => UNCHANGED vars

\* At exit the prober is stopped and every accepted packet is accounted for:
\* processed, dropped, or in the batch that was being processed.  A packet
\* still in the queue has been counted in packetsDropped.
AccountedAtExit ==
    lifecycle.exited =>
        /\ ~lifecycle.isRunning
        /\ stats.packetsReceived =
              stats.packetsProcessed + stats.packetsDropped + Len(batch)

\* C21: once shutdown has begun no new packet is accepted into the queue,
\* the prober is stopped, and every packet still in the queue when the
\* process exits is counted in packetsDropped.
C21_GracefulShutdown == []AccountedAtExit /\ [][NothingAfterExit]_vars

\* The part of C21 that does not depend on the queue: after shutdown nothing
\* is accepted and the prober is stopped.
C21_StoppedAtExit ==
    [](lifecycle.exited => ~lifecycle.isRunning) /\ [][NothingAfterExit]_vars


\* C22: GET /ready answers 200 if and only if at least one registered
\* analyzer is healthy at that moment, and 503 otherwise, after any sequence
\* of admissions, removals and recorded outcomes.
C22_ReadyIffHealthy ==
    program = "gateway" =>
        /\ readyStatus(analyzers) \in {200, 503}
        /\ readyStatus(analyzers) = 200 <=>
              \E i \in 1 .. Len(analyzers) : analyzers[i].healthy

\* The only registered analyzer has been degraded by recorded failures:
\* /ready answers 503.
C22_Witness ==
    /\ Len(analyzers) = 1 /\ ~analyzers[1].healthy
    /\ analyzers[1].consecutiveFailures >= FailureThreshold
    /\ readyStatus(analyzers) = 503


\* C23: for every analyzer, from its admission to its removal, totalChecks
\* and totalFailures never decrease, and totalFailures <= totalChecks in
\* every reachable state.  An admission of an id that is present starts a new
\* record, with both counters at 0.
C23_LifetimeCounters ==
    /\ [](\A i \in 1 .. Len(analyzers) :
            /\ analyzers[i].totalFailures <= analyzers[i].totalChecks
            /\ analyzers[i].totalFailures >= 0)
    /\ [][\A id \in Ids :
            Has(analyzers, id) /\ Has(analyzers', id) =>
                LET a == Lookup(analyzers, id)
                    b == Lookup(analyzers', id)
                IN  \/ /\ b.totalChecks >= a.totalChecks
                       /\ b.totalFailures >= a.totalFailures
                    \/ b = NewAnalyzer(id, b.weight)]_vars

\* An analyzer with failures and successes recorded.
C23_Witness ==
    \E i \in 1 .. Len(analyzers) :
        /\ analyzers[i].totalFailures >= 2
        /\ analyzers[i].totalChecks >= analyzers[i].totalFailures + 2


\* k recordFailure calls in a row for one index, and k recordSuccess calls.
RECURSIVE Failures(_, _, _)
Failures(h, index, k) ==
    IF k = 0 THEN h ELSE Failures(recordFailure(h, index), index, k - 1)

RECURSIVE Successes(_, _, _)
Successes(h, index, k) ==
    IF k = 0 THEN h ELSE Successes(recordSuccess(h, index), index, k - 1)

\* C24: from a healthy analyzer, the recordFailure call that brings its
\* streak of failures to failureThreshold makes it unhealthy and fewer leave
\* it healthy; from an unhealthy analyzer, the recordSuccess call that brings
\* its streak of successes to recoveryThreshold makes it healthy, with
\* failureCounts 0, and fewer leave it unhealthy.
C24_FtdHealthStateMachine ==
    program = "coding" =>
    \A index \in 1 .. Len(health.healthy) :
        /\ health.healthy[index] =>
              \A k \in 0 .. failureThreshold :
                  Failures(health, index, k).healthy[index]
                     <=> health.failureCounts[index] + k < failureThreshold
        /\ ~health.healthy[index] =>
              \A k \in 0 .. recoveryThreshold :
                  LET r == Successes(health, index, k)
                  IN  /\ r.healthy[index]
                         <=> health.successCounts[index] + k >= recoveryThreshold
                      /\ k > 0 => r.failureCounts[index] = 0

\* An unhealthy analyzer one success short of recovery.
C24_Witness ==
    /\ program = "coding"
    /\ \E index \in 1 .. Len(health.healthy) :
          ~health.healthy[index] /\ health.successCounts[index] = recoveryThreshold - 1


\* The recordFailure and the recordSuccess functions waiting for the lock of
\* index.
QueuedFailures(locks, index) ==
    Cardinality({j \in 1 .. Len(locks[index].queue) : ~locks[index].queue[j].ok})
QueuedSuccesses(locks, index) ==
    Cardinality({j \in 1 .. Len(locks[index].queue) : locks[index].queue[j].ok})

\* The calls whose analyzer call on index is rejected in this step, and the
\* ones whose analyzer call on index resolves.
FailingNow(index) ==
    {c \in Calls : /\ calls[c].pc = "analyze" /\ calls[c].sel = index
                   /\ calls'[c].pc = "locking" /\ ~calls'[c].ok}
SucceedingNow(index) ==
    {c \in Calls : /\ calls[c].pc = "analyze" /\ calls[c].sel = index
                   /\ calls'[c].pc = "locking" /\ calls'[c].ok}

\* C25: no lost updates.  While calls fail on one analyzer with no success
\* recorded or waiting for it (and no health check or reconfiguration going
\* on), every failed call adds exactly one to failureCounts, at once or when
\* its recordFailure gets the lock, nothing else changes the count, and the
\* analyzer is unhealthy as soon as the count has reached failureThreshold.
C25_NoLostFailure ==
    [][program = "coding" /\ used.rounds = 0 /\ used.reconfigs = 0
       /\ used'.rounds = 0 /\ used'.reconfigs = 0 =>
       \A index \in 1 .. Len(stateLocks) :
          /\ health.successCounts[index] = 0
          /\ QueuedSuccesses(stateLocks, index) = 0
          /\ SucceedingNow(index) = {}
          => /\ health'.failureCounts[index] + QueuedFailures(stateLocks', index)
                  = health.failureCounts[index] + QueuedFailures(stateLocks, index)
                    + Cardinality(FailingNow(index))
             /\ health'.failureCounts[index] >= failureThreshold
                  => ~health'.healthy[index]]_vars

\* The first messages of two concurrent calls have both failed on the same
\* analyzer: its count is 2 and it is unhealthy.
C25_Witness ==
    /\ program = "coding" /\ used.rounds = 0
    /\ \E index \in 1 .. Len(stateLocks) :
          /\ health.failureCounts[index] = 2 /\ ~health.healthy[index]
          /\ \A c \in {1, 2} :
                /\ calls[c].sel = index /\ calls[c].k = 0 /\ ~calls[c].ok
                /\ calls[c].pc \in {"locking", "resume"}


\* The distribute calls that have returned, and the ones that are running.
Finished == {c \in Calls : calls[c].pc = "finished"}
Running == {c \in Calls : calls[c].pc \notin {"idle", "finished", "rejected"}}

\* The messages of a set of calls.
RECURSIVE MessagesOf(_)
MessagesOf(S) ==
    IF S = {} THEN 0
    ELSE LET c == CHOOSE d \in S : TRUE IN calls[c].n + MessagesOf(S \ {c})

\* The calls whose analyzer call has succeeded and is not yet counted in
\* analyzerCounts.
Uncounted(cs) == {c \in Calls : cs[c].pc \in {"locking", "resume"} /\ cs[c].ok}

\* C26: for concurrently running distribute calls (none rejected up front,
\* no reconfiguration), totalPackets is the number of calls started and
\* totalMessages the number of messages they submitted, at every moment and
\* so once all have completed; and the sum of analyzerCounts goes up by one
\* for every analyzer call that succeeds, once its call resumes, and by
\* nothing else, so that it equals the number of messages whose analyzer call
\* succeeded.
C26_ConcurrentStatistics ==
    /\ [](program = "coding" =>
            /\ dstats.totalPackets = Cardinality(Finished \cup Running)
            /\ dstats.totalMessages = MessagesOf(Finished \cup Running))
    /\ [][program = "coding" /\ used.reconfigs = 0 /\ used'.reconfigs = 0 =>
            SumSeq(dstats'.analyzerCounts) + Cardinality(Uncounted(calls'))
               = SumSeq(dstats.analyzerCounts) + Cardinality(Uncounted(calls))
                 + Cardinality(UNION {SucceedingNow(index) : index \in 1 .. MaxAnalyzers})]_vars

\* Two concurrent calls of two messages each have completed and every
\* analyzer call has succeeded.
C26_Witness ==
    /\ program = "coding" /\ Finished = {1, 2}
    /\ dstats.totalPackets = 2 /\ dstats.totalMessages = 4
    /\ SumSeq(dstats.analyzerCounts) = 4


\* The distribute call c is made in this step.
Called(c) == calls[c].pc = "idle" /\ calls'[c].pc # "idle"

\* C27: FaultTolerantDistributor.distribute called while no analyzer is
\* healthy rejects with 'No healthy analyzers available', calls no analyzer
\* (the rejected call does nothing afterwards) and leaves totalPackets,
\* totalMessages and analyzerCounts unchanged.
C27_RejectsWithoutHealthyAnalyzer ==
    [][\A c \in Calls :
          /\ Called(c) /\ getHealthyIndices(health) = <<>> =>
                /\ calls'[c].pc = "rejected"
                /\ dstats' = dstats
                /\ health' = health /\ stateLocks' = stateLocks
          /\ calls[c].pc = "rejected" => calls'[c] = calls[c]]_vars

\* A distribute call with messages has been rejected: the only analyzer is
\* unhealthy.
C27_Witness ==
    /\ program = "coding"
    /\ \E c \in Calls : calls[c].pc = "rejected" /\ calls[c].n > 0
    /\ getHealthyIndices(health) = <<>> /\ Len(health.healthy) > 0


\* Packet n waits in the queue while some registered analyzer is healthy and
\* has no message in flight.
Bypassable(n) ==
    /\ Queued(n)
    /\ \E i \in 1 .. Len(analyzers) :
          /\ analyzers[i].healthy
          /\ \A j \in 1 .. Len(msgState) : msgState[j] # InFlight(analyzers[i].id)

IdOrder == <<"a1", "a2">>
Lexicographic(reg) ==
    LET present == SelectSeq(IdOrder, LAMBDA id : Has(reg, id))
    IN  [i \in 1 .. Len(present) |-> Lookup(reg, present[i])]

\* C29: the selector iterates the healthy analyzers in lexicographic order of
\* id: for every draw, the analyzer selected from the registry is the one
\* selected from the same records listed by id, whatever the order in which
\* they were admitted, re-admitted or recovered.
C29_SelectorDeterminism ==
    program = "gateway" =>
        \A u \in Randoms :
            selectAnalyzer(analyzers, u) = selectAnalyzer(Lexicographic(analyzers), u)

\* The set of healthy analyzers the selector walks is the same in both
\* orders: only the order differs.
C29_SameCandidates ==
    program = "gateway" =>
        Records(getHealthyAnalyzers(analyzers))
           = Records(getHealthyAnalyzers(Lexicographic(analyzers)))


\* The queue holds the packets in the order of their arrival.
InArrivalOrder ==
    \A i, j \in 1 .. Len(packetQueue) : i < j => packetQueue[i].id < packetQueue[j].id

\* This step takes k packets out of the queue.
Drains(k) == k > 0 /\ Len(packetQueue') = Len(packetQueue) - k

\* C30: each drain removes at most batchSize packets, always the oldest ones
\* in enqueue order, and a drain of an empty queue removes nothing: the queue
\* is in arrival order, a packet is enqueued at its end, a drain takes a
\* prefix of at most batchSize packets into the batch, in order, and splice
\* of an empty queue gives an empty batch.
C30_DrainIsFifoAndBounded ==
    /\ [](program = "gateway" =>
            /\ InArrivalOrder
            /\ splice(<<>>) = [batch |-> <<>>, packetQueue |-> <<>>])
    /\ [][\A k \in 1 .. maxQueueSize :
            Drains(k) =>
               /\ k <= batchSize
               /\ batch' = SubSeq(packetQueue, 1, k)
               /\ packetQueue' = SubSeq(packetQueue, k + 1, Len(packetQueue))]_vars
    /\ [][Len(packetQueue') > Len(packetQueue) =>
            /\ Len(packetQueue') = Len(packetQueue) + 1
            /\ SubSeq(packetQueue', 1, Len(packetQueue)) = packetQueue]_vars

\* A drain has taken the oldest packet of a full queue: the batch holds the
\* older packet, the queue the newer one.
C30_Witness ==
    /\ Len(batch) = batchSize /\ Len(packetQueue) = maxQueueSize - batchSize
    /\ packetQueue # <<>>
    /\ batch[Len(batch)].id < packetQueue[1].id
    /\ stats.packetsProcessed = 0 /\ stats.packetsReceived = maxQueueSize


\* This step records a success, or a failure, for the analyzer id.
Success(id) ==
    /\ Outcome(id)
    /\ Lookup(analyzers', id).consecutiveSuccesses
          = Lookup(analyzers, id).consecutiveSuccesses + 1

Failure(id) ==
    /\ Outcome(id)
    /\ Lookup(analyzers', id).consecutiveFailures
          = Lookup(analyzers, id).consecutiveFailures + 1

\* C31: recording an outcome for one analyzer changes only that analyzer's
\* record: the step leaves every other analyzer's record as it was and the
\* registry with the same ids in the same places; in the target record the
\* id and the weight stay, a failure leaves lastSeen unchanged and a success
\* leaves totalFailures unchanged.
C31_OutcomeFrame ==
    [][program = "gateway" =>
       \A id \in Ids :
          Outcome(id) =>
             LET a == Lookup(analyzers, id)
                 b == Lookup(analyzers', id)
             IN  /\ Len(analyzers') = Len(analyzers)
                 /\ \A i \in 1 .. Len(analyzers) :
                        analyzers[i].id # id => analyzers'[i] = analyzers[i]
                 /\ Index(analyzers', id) = Index(analyzers, id)
                 /\ b.id = a.id /\ b.weight = a.weight
                 /\ Success(id) \/ Failure(id)
                 /\ Failure(id) => b.lastSeen = a.lastSeen
                 /\ Success(id) => b.totalFailures = a.totalFailures]_vars

\* Two analyzers are registered; one has a success and then a failure on
\* record (its lastSeen is the time of the success), the other has none.
C31_Witness ==
    /\ Len(analyzers) = 2
    /\ \E i, j \in 1 .. 2 :
          /\ analyzers[i].totalChecks = 2 /\ analyzers[i].lastSeen = 1
          /\ analyzers[i].totalFailures = 1
          /\ analyzers[j].totalChecks = 0


\* The health-change events of the step that records an outcome for id.
HealthEvents(id) ==
    updateAnalyzerHealthEmits(analyzers, id, Success(id),
                              Lookup(analyzers', id).lastResponseTime)

\* C32: a health-change notification is emitted only by an outcome that flips
\* the analyzer's healthy flag: an event with healthy = TRUE (recovered) only
\* on a step from unhealthy to healthy, one with healthy = FALSE (degraded)
\* only on a step from healthy to unhealthy, and none for an outcome that
\* leaves the flag as it was.
C32_NotifiesOnlyOnFlip ==
    [][program = "gateway" =>
       \A id \in Ids :
          Outcome(id) =>
             LET a == Lookup(analyzers, id)
                 b == Lookup(analyzers', id)
                 e == HealthEvents(id)
             IN  \A k \in 1 .. Len(e) :
                    /\ e[k].healthy => ~a.healthy /\ b.healthy
                    /\ ~e[k].healthy => a.healthy /\ ~b.healthy]_vars

\* What the code does keep: an outcome emits exactly one event, which
\* carries the flag the analyzer has after it, so every flip is notified.
C32_OneEventPerOutcome ==
    [][program = "gateway" =>
       \A id \in Ids :
          Outcome(id) =>
             /\ Len(HealthEvents(id)) = 1
             /\ HealthEvents(id)[1].healthy = Lookup(analyzers', id).healthy]_vars


\* This step runs a critical section of analyzer index: the body of
\* recordSuccess or of recordFailure, each of which changes a count.
Entered(index) ==
    \/ health'.successCounts[index] # health.successCounts[index]
    \/ health'.failureCounts[index] # health.failureCounts[index]

\* The functions that have called acquire on a lock and have not been
\* released: the holder and the waiters.
Pending(lock) == Len(lock.queue) + (IF lock.holder # None THEN 1 ELSE 0)

\* C33: outcome recording is serialized per analyzer and independent across
\* analyzers.  A critical section of an analyzer starts only while its lock
\* is free, takes the lock, and is the body of exactly one recordSuccess or
\* recordFailure; until the lock is released no other one runs for that
\* analyzer.  An acquire on a free lock with no waiters runs its function in
\* the same step, whatever the other analyzers' locks are doing.
C33_SerializedPerAnalyzer ==
    /\ [][\A i \in 1 .. Len(stateLocks) :
            Entered(i) =>
               /\ stateLocks[i].holder = None
               /\ stateLocks'[i].holder # None
               /\ health' = IF stateLocks'[i].holder.ok
                            THEN recordSuccess(health, i)
                            ELSE recordFailure(health, i)]_vars
    /\ [][\A i \in 1 .. Len(stateLocks) :
            /\ Pending(stateLocks'[i]) > Pending(stateLocks[i])
            /\ Pending(stateLocks[i]) = 0
            => Entered(i)]_vars

\* The locks of two analyzers are held at the same time, each by the outcome
\* of one of two concurrent calls, and both outcomes are on record.
C33_Witness ==
    /\ Len(stateLocks) = 2
    /\ stateLocks[1].holder # None /\ stateLocks[2].holder # None
    /\ stateLocks[1].holder.id # stateLocks[2].holder.id
    /\ health.failureCounts[1] + health.successCounts[1] = 1
    /\ health.failureCounts[2] + health.successCounts[2] = 1


\* This step admits the analyzer id: the id enters the registry, or its
\* record is replaced by another one without an outcome being recorded.
Admitted(id) ==
    /\ Has(analyzers', id)
    /\ \/ ~Has(analyzers, id)
       \/ Lookup(analyzers', id) # Lookup(analyzers, id) /\ ~Outcome(id)

\* The healthy analyzers of the registry all have a positive weight.
PositiveWeights(reg) ==
    \A i \in 1 .. Len(reg) : reg[i].healthy => reg[i].weight > 0

\* The values of Math.random() that make random = Math.random() * totalWeight
\* a multiple of 1/2 in [0, totalWeight), as <<numerator, denominator>>: with
\* whole weights, one of them falls into every analyzer's share.  Where there
\* is no positive total the two draws 0 and 1/2 stand for all.
Halves(totalWeight) ==
    IF totalWeight > 0
    THEN {<<num, 2 * totalWeight>> : num \in 0 .. 2 * totalWeight - 1}
    ELSE {<<0, 2>>, <<1, 2>>}

\* The sum of the weights of the healthy indices that have one.
HealthyWeight(w, h) ==
    LET healthyIndices == getHealthyIndices(h)
    IN  SumSeq([j \in 1 .. Len(healthyIndices) |->
                   IF healthyIndices[j] <= Len(w) THEN w[healthyIndices[j]] ELSE 0])

\* The analyzer id of the gateway, and the index i of the
\* FaultTolerantDistributor, is the selection of some draw.
Selectable(reg, id) ==
    \E r \in Halves(getTotalWeight(reg)) : selectAnalyzerAt(reg, r[1], r[2]) = id

FtdSelectable(w, h, i) ==
    \E r \in Halves(HealthyWeight(w, h)) : ftdSelectAnalyzerAt(w, h, r[1], r[2]) = i

\* No call and no health check has been made on the distributor since its
\* construction, and its configuration is the constructor's.
NewlyConstructed ==
    /\ program = "coding"
    /\ dstats.totalPackets = 0 /\ used.rounds = 0 /\ used.reconfigs = 0
    /\ \A c \in Calls : calls[c].pc = "idle"

\* C34: an analyzer starts healthy with both consecutive counters at zero and
\* can be selected at once, with no probe before.  In the gateway the record
\* of a newly admitted analyzer is healthy, has no outcome on record, is among
\* the selector's candidates and, the candidates' weights being positive, is
\* the selection of some draw.  In a newly constructed
\* FaultTolerantDistributor every index is healthy with both counts at zero
\* and is the selection of some draw.
C34_StartsHealthy ==
    /\ [][program = "gateway" =>
            \A id \in Ids :
               Admitted(id) =>
                  LET b == Lookup(analyzers', id)
                      h == getHealthyAnalyzers(analyzers')
                  IN  /\ b.healthy
                      /\ b.consecutiveFailures = 0 /\ b.consecutiveSuccesses = 0
                      /\ b.totalChecks = 0
                      /\ \E k \in 1 .. Len(h) : h[k].id = id
                      /\ PositiveWeights(analyzers') => Selectable(analyzers', id)]_vars
    /\ [](NewlyConstructed =>
            \A i \in 1 .. Len(weights) :
               /\ health.healthy[i]
               /\ health.failureCounts[i] = 0 /\ health.successCounts[i] = 0
               /\ FtdSelectable(weights, health, i))

\* An analyzer with no outcome on record stands next to an unhealthy one: it
\* is the only candidate of the selector, straight from its admission.
C34_Witness ==
    /\ Len(analyzers) = 2
    /\ \E i, j \in 1 .. 2 :
          /\ analyzers[i].healthy /\ analyzers[i].totalChecks = 0
          /\ ~analyzers[j].healthy
          /\ \A u \in Randoms : selectAnalyzer(analyzers, u) = analyzers[i].id


\* This step starts a probe.
ProbeStarts == \E id \in Ids : probes'[id] > probes[id]

\* C35: the HealthChecker's lifecycle.  In every reachable state isRunning
\* is true exactly when one periodic timer is armed (and no timer is armed
\* otherwise); a stop after a stop changes nothing and emits no further
\* 'stopped'; a start while running changes nothing, so no second timer; a
\* start after a stop arms one timer again; and no probe starts once the
\* checker is stopped.
C35_HealthCheckerLifecycle ==
    /\ [](program = "gateway" =>
            LET once == stop(lifecycle)
                twice == stop(once)
            IN  /\ lifecycle.isRunning <=> lifecycle.timers = 1
                /\ ~lifecycle.isRunning <=> lifecycle.timers = 0
                /\ ~once.isRunning /\ once.timers = 0
                /\ twice = once
                /\ stopEmits(once) = <<>>
                /\ Len(stopEmits(lifecycle)) = (IF lifecycle.isRunning THEN 1 ELSE 0)
                /\ lifecycle.isRunning =>
                      start(lifecycle) = lifecycle /\ startEmits(lifecycle) = <<>>
                /\ start(once).isRunning /\ start(once).timers = 1)
    /\ [][program = "gateway" /\ ProbeStarts => lifecycle.isRunning]_vars

\* The checker has been stopped after a round of its probes: a probe it
\* started is still in flight, and no timer is armed.
C35_Witness ==
    /\ ~lifecycle.isRunning /\ lifecycle.timers = 0
    /\ \E id \in Ids : probes[id] > 0


\* This step delivers an outcome that was issued against an Analyzer object
\* of id which has since been deleted from the Map or replaced in it.
LateFor(id) ==
    \/ \E i \in evicted.msgs : msgState'[i] # msgState[i] /\ msgState[i].analyzer = id
    \/ evicted'.probes[id] < evicted.probes[id]

\* C36: an outcome is applied only to the registration it was issued
\* against: when the outcome of a dispatch or a probe that started against an
\* earlier record of id arrives while id is registered again, the counters
\* and the healthy flag of the record now registered stay as they are.
C36_OutcomeForItsRegistration ==
    [][program = "gateway" =>
       \A id \in Ids :
          LateFor(id) /\ Has(analyzers, id) =>
             LET a == Lookup(analyzers, id)
                 b == Lookup(analyzers', id)
             IN  /\ b.healthy = a.healthy
                 /\ b.consecutiveFailures = a.consecutiveFailures
                 /\ b.consecutiveSuccesses = a.consecutiveSuccesses
                 /\ b.totalChecks = a.totalChecks
                 /\ b.totalFailures = a.totalFailures]_vars

\* What the code does with such an outcome: it is recorded, once, in the
\* record registered under the id when it arrives.
C36_AppliedById ==
    [][program = "gateway" =>
       \A id \in Ids : LateFor(id) /\ Has(analyzers, id) => Outcome(id)]_vars


\* C37: queue draining is single-flight.  isProcessing is true exactly while
\* a batch is in progress, so it is false again after every batch, failed
\* sends or not; a batch is one drain of at most batchSize packets; a tick
\* that fires while a batch is in progress returns at once; and a drain
\* starts only when no batch is in progress.
C37_SingleFlightDrain ==
    /\ [](program = "gateway" =>
            /\ isProcessing <=> batch # <<>>
            /\ Len(batch) <= batchSize
            /\ isProcessing => processQueueReturns(isProcessing, packetQueue))
    /\ [][Len(packetQueue') < Len(packetQueue) =>
            /\ ~isProcessing /\ batch = <<>>
            /\ isProcessing' /\ batch' # <<>>]_vars

\* A batch whose sends failed has been completed and isProcessing was reset:
\* the next batch is in progress with a message in flight, while a packet
\* waits in the queue for the ticks that fire in the meantime.
C37_Witness ==
    /\ isProcessing /\ batch # <<>> /\ packetQueue # <<>>
    /\ \E i \in 1 .. Len(msgState) : msgState[i].st = "inflight"
    /\ Quiescent
    /\ stats.errors >= 1 /\ stats.packetsProcessed >= 1


\* The acquire calls whose function holds the lock or waits for it.
Holding(lock) == IF lock.holder # None THEN {lock.holder.id} ELSE {}
Waiting(lock) == {lock.queue[j].id : j \in 1 .. Len(lock.queue)}

\* Every pending call is in the lock exactly once, as the holder or as one
\* waiter, and no other call is in it; the waiters stand in the order of
\* their calls, behind the holder.
LockHoldsPending ==
    LET lock == stateLocks[1]
    IN  /\ Holding(lock) \cup Waiting(lock) = {c \in Acquirers : calls[c].pc = "locking"}
        /\ Holding(lock) \cap Waiting(lock) = {}
        /\ Cardinality(Waiting(lock)) = Len(lock.queue)
        /\ \A j, k \in 1 .. Len(lock.queue) :
              j < k => lock.queue[j].id < lock.queue[k].id
        /\ \A c \in Holding(lock), d \in Waiting(lock) : c < d
        /\ \A c \in Acquirers \ Waiting(lock) :
              calls[c].pc = "idle" => \A d \in Waiting(lock) : d < c

\* The function of call c starts in this step: it takes the lock.
Runs(c) == c \in Holding(stateLocks'[1]) /\ c \notin Holding(stateLocks[1])

\* The promise of call c is settled in this step.
Settles(c) == calls[c].pc = "locking" /\ calls'[c].pc # "locking"

\* C38: AsyncLock progress and order.  Every function passed to acquire is
\* eventually run and its promise settled; it runs once, in the order of the
\* acquire calls (when it starts, every earlier call has been settled), and
\* while no other function holds the lock; its promise is settled when it
\* has run, resolved if it returned and rejected if it threw, and no other
\* promise changes with it, so the waiters behind a function that throws
\* still run.
C38_LockProgressAndOrder ==
    /\ \A c \in Acquirers :
          calls[c].pc = "locking" ~> calls[c].pc \in {"resolved", "rejected"}
    /\ [](program = "lock" => LockHoldsPending)
    /\ [][\A c \in Acquirers :
            /\ Runs(c) =>
                  /\ stateLocks[1].holder = None
                  /\ calls'[c].pc = "locking"
                  /\ \A d \in Acquirers : d < c => calls[d].pc \in {"resolved", "rejected"}
            /\ Settles(c) =>
                  /\ c \in Holding(stateLocks[1])
                  /\ calls'[c].pc = (IF calls[c].ok THEN "resolved" ELSE "rejected")
                  /\ \A d \in Acquirers \ {c} : calls'[d] = calls[d]
            /\ calls[c].pc \in {"resolved", "rejected"} => calls'[c] = calls[c]]_vars

\* The first function threw and its promise is rejected; the second, which
\* waited behind it, has returned and its promise is resolved; the third
\* holds the lock and the fourth waits.
C38_Witness ==
    /\ program = "lock"
    /\ calls[1].pc = "rejected" /\ calls[2].pc = "resolved"
    /\ Holding(stateLocks[1]) = {3} /\ Waiting(stateLocks[1]) = {4}


\* C39: in every reachable state a healthy analyzer has fewer consecutive
\* failures than the failure threshold and an unhealthy one fewer consecutive
\* successes than the success threshold: for the records that
\* Analyzer.updateHealth keeps (thresholds 3 and 3) and for the
\* FaultTolerantDistributor's failureCounts and successCounts (thresholds
\* failureThreshold and recoveryThreshold).
C39_StreaksBelowThreshold ==
    /\ \A i \in 1 .. Len(analyzers) :
          /\ analyzers[i].healthy => analyzers[i].consecutiveFailures < FailureThreshold
          /\ ~analyzers[i].healthy => analyzers[i].consecutiveSuccesses < SuccessThreshold
    /\ \A i \in 1 .. Len(health.healthy) :
          /\ health.healthy[i] => health.failureCounts[i] < failureThreshold
          /\ ~health.healthy[i] => health.successCounts[i] < recoveryThreshold

\* An unhealthy index of the FaultTolerantDistributor is one success short
\* of its recovery.
C39_Witness ==
    /\ program = "coding"
    /\ \E i \in 1 .. Len(health.healthy) :
          ~health.healthy[i] /\ health.successCounts[i] = recoveryThreshold - 1

\* An unhealthy analyzer of the gateway is one success short of its
\* recovery.
C39_GatewayWitness ==
    /\ program = "gateway"
    /\ \E i \in 1 .. Len(analyzers) :
          ~analyzers[i].healthy /\ analyzers[i].consecutiveSuccesses = SuccessThreshold - 1


\* The healthy, failureCounts, successCounts and stateLocks arrays have one
\* entry per configured analyzer.
OneEntryPerAnalyzer ==
    /\ Len(health.healthy) = Len(weights)
    /\ Len(health.failureCounts) = Len(weights)
    /\ Len(health.successCounts) = Len(weights)
    /\ Len(stateLocks) = Len(weights)

\* selectAnalyzer returns only indices of configured analyzers (or throws),
\* and every configured analyzer that is healthy and has a positive weight is
\* the selection of some draw.
SelectsConfigured ==
    /\ \A u \in Randoms : ftdSelectAnalyzer(weights, health, u) \in 0 .. Len(weights)
    /\ \A i \in 1 .. Len(weights) :
          /\ i <= Len(health.healthy) /\ health.healthy[i]
          /\ weights[i] > 0
          => FtdSelectable(weights, health, i)
    /\ \A i \in 1 .. Len(weights) :
          i > Len(health.healthy) => FtdSelectable(weights, health, i)

\* C40: after any sequence of operations on a FaultTolerantDistributor,
\* updateConfiguration with another number of analyzers included, the
\* healthy, failureCounts, successCounts and stateLocks arrays have one entry
\* per configured analyzer, selectAnalyzer returns only configured indices
\* and every configured analyzer (healthy from its configuration on, or
\* healthy by its record) with positive weight can be selected.
C40_ArraysFollowConfiguration ==
    program = "coding" => OneEntryPerAnalyzer /\ SelectsConfigured

\* What holds: the arrays match the configuration until the first
\* updateConfiguration, which leaves them as they are.
C40_ArraysFollowConstructor ==
    /\ [](program = "coding" /\ used.reconfigs = 0 => OneEntryPerAnalyzer /\ SelectsConfigured)
    /\ [][weights' # weights => /\ health' = health
                                 /\ stateLocks' = stateLocks]_vars

====
